---- MODULE Spec2Model ----
(***************************************************************************)
(* League simulation and playoff bracket engine of fantasybball            *)
(* (src/src/league.py), modelled as a state machine over one LeagueState.  *)
(*                                                                         *)
(* Conventions of the model                                                *)
(*   - a date is an integer day number, day 0 being a Monday, so that      *)
(*     date.weekday() is d % 7 and ISO strings order as the integers do;   *)
(*   - a team name is a positive integer, names ordering as integers;      *)
(*     None / "" is 0 (NoTeam), a missing seed is 0 (NoSeed);              *)
(*   - fantasy totals are whole numbers, so round(x, 1) leaves them as     *)
(*     they are;                                                           *)
(*   - the per-player breakdown kept inside a weekly entry is left out:    *)
(*     no operation reads it back.                                         *)
(***************************************************************************)
EXTENDS Integers, Sequences, FiniteSets, TLC

(***************************************************************************)
(* Bounds of the model                                                     *)
(***************************************************************************)
\* largest fantasy total one team can score on one date
MaxScore == 1

\* largest roster size of an auto-drafted league
MaxRosterSize == 3

\* longest candidate list of an auto-drafted league
MaxCandidates == 7

\* largest number of teams the round-robin generator is given
MaxTeams == 7

\* longest season, from its first to its last date, the week ranges are computed for
MaxSeasonDays == 16

\* largest value of a statistic in a row of the game logs
MaxStat == 1

NoTeam == 0
NoSeed == 0

(***************************************************************************)
(* Generic helpers                                                         *)
(***************************************************************************)
SeqToSet(s) == {s[i] : i \in DOMAIN s}

RECURSIVE SumSeq(_)
SumSeq(s) == IF s = <<>> THEN 0 ELSE Head(s) + SumSeq(Tail(s))

\* the elements of s that satisfy Keep, in order (a Python list comprehension)
FilterSeq(s, Keep(_)) == SelectSeq(s, Keep)

\* a value computed once and used by what follows, as a local variable is
With(value, Body(_)) == Body(value)

\* Python tuple comparison of two sort keys (sequences of integers of one length)
RECURSIVE KeyLess(_, _)
KeyLess(a, b) ==
    IF a = <<>> \/ b = <<>> THEN FALSE
    ELSE IF Head(a) # Head(b) THEN Head(a) < Head(b)
         ELSE KeyLess(Tail(a), Tail(b))

\* list.sort(key=...) / sorted(key=...): stable, ascending by key.
\* items is a sequence of records [key |-> <<...>>, val |-> ...].
RECURSIVE InsertSorted(_, _)
InsertSorted(x, s) ==
    IF s = <<>> THEN <<x>>
    ELSE IF KeyLess(x.key, s[Len(s)].key)
         THEN Append(InsertSorted(x, SubSeq(s, 1, Len(s) - 1)), s[Len(s)])
         ELSE Append(s, x)

RECURSIVE SortedByKey(_)
SortedByKey(items) ==
    IF items = <<>> THEN <<>>
    ELSE InsertSorted(items[Len(items)], SortedByKey(SubSeq(items, 1, Len(items) - 1)))

Undecorate(items) == [i \in DOMAIN items |-> items[i].val]

\* dict.get(key, default)
DictGet(d, k, default) == IF k \in DOMAIN d THEN d[k] ELSE default

\* d[k] = v on a dict
DictPut(d, k, v) == [x \in (DOMAIN d) \cup {k} |-> IF x = k THEN v ELSE d[x]]

\* dict.pop(k, None)
DictPop(d, k) == [x \in (DOMAIN d) \ {k} |-> d[x]]

EmptyDict == [x \in {} |-> 0]

(***************************************************************************)
(* Week calendar                                                           *)
(***************************************************************************)
\* the week taken to begin on Sunday
_week_monday_FromSunday(day) == day - ((day + 1) % 7)

_week_monday(day) == day - (day % 7)

RECURSIVE WeekRangeLoop(_, _, _)
WeekRangeLoop(ranges, week_monday, last_date) ==
    IF week_monday <= last_date
    THEN WeekRangeLoop(Append(ranges, [start |-> week_monday, end |-> week_monday + 6]),
                       week_monday + 7, last_date)
    ELSE ranges

_compute_week_ranges(calendar) ==
    IF calendar = <<>> THEN <<>>
    ELSE LET first_date   == CHOOSE d \in SeqToSet(calendar) : \A e \in SeqToSet(calendar) : d <= e
             last_date    == CHOOSE d \in SeqToSet(calendar) : \A e \in SeqToSet(calendar) : e <= d
             first_monday == _week_monday(first_date)
         IN  WeekRangeLoop(<<[start |-> first_date, end |-> first_monday + 6]>>,
                           first_monday + 7, last_date)

(***************************************************************************)
(* Round-robin scheduler                                                   *)
(***************************************************************************)
BYE == -1

RoundPairings(teams) ==
    LET n    == Len(teams)
        raw  == [index \in 1..(n \div 2) |-> <<teams[index], teams[n + 1 - index]>>]
        Real(p) == p[1] # BYE /\ p[2] # BYE
    IN  FilterSeq(raw, Real)

\* the team list left as it is between two rounds
Rotate_Nothing(teams) == teams

Rotate(teams) ==
    <<teams[1], teams[Len(teams)]>> \o SubSeq(teams, 2, Len(teams) - 1)

RECURSIVE RoundRobinLoop(_, _, _)
RoundRobinLoop(teams, rounds, schedule) ==
    IF rounds = 0 THEN schedule
    ELSE RoundRobinLoop(Rotate(teams), rounds - 1, Append(schedule, RoundPairings(teams)))

_round_robin_pairs(team_names) ==
    IF team_names = <<>> THEN <<>>
    ELSE LET teams == IF Len(team_names) % 2 # 0 THEN Append(team_names, BYE) ELSE team_names
         IN  IF Len(teams) <= 1 THEN <<>>
             ELSE RoundRobinLoop(teams, Len(teams) - 1, <<>>)

FlipPairing(pairing) == [i \in DOMAIN pairing |-> <<pairing[i][2], pairing[i][1]>>]

_build_weekly_pairings(team_names, week_count) ==
    LET base_schedule == _round_robin_pairs(team_names)
        base_length   == Len(base_schedule)
    IN  IF base_schedule = <<>> THEN [w \in 1..week_count |-> <<>>]
        ELSE [w \in 1..week_count |->
                LET week_index   == w - 1
                    base_pairing == base_schedule[(week_index % base_length) + 1]
                IN  IF (week_index \div base_length) % 2 = 1
                    THEN FlipPairing(base_pairing) ELSE base_pairing]

(***************************************************************************)
(* Weekly aggregation store: entries and week skeleton                     *)
(***************************************************************************)
\* matchup ids: "week{i}-matchup{k}" and "playoff-r{r}m{m}"
WeekMatchupId(index, matchup_idx) == <<"week", index, matchup_idx>>
PlayoffMatchupId(round_index, match_idx) == <<"playoff", round_index, match_idx>>

ZeroTeamEntry == [total |-> 0, daily_totals |-> EmptyDict]

\* a weekly_results entry; order is the insertion order of the "teams" dict
NewEntry(week_index, names) ==
    LET present == FilterSeq(names, LAMBDA n : n # NoTeam)
    IN  [week_index |-> week_index,
         order      |-> present,
         teams      |-> [t \in SeqToSet(present) |-> ZeroTeamEntry],
         days       |-> <<>>]

BaseWeek(index, range, pairings) ==
    [index         |-> index,
     start         |-> range.start,
     end           |-> range.end,
     matchups      |-> [k \in DOMAIN pairings |->
                          [id    |-> WeekMatchupId(index, k - 1),
                           teams |-> pairings[k]]],
     status        |-> "",
     playoff_round |-> 0]

BaseWeeks(calendar, team_names) ==
    With(_compute_week_ranges(calendar), LAMBDA week_ranges :
    With(_build_weekly_pairings(team_names, Len(week_ranges)), LAMBDA weekly_pairings :
        [i \in DOMAIN week_ranges |-> BaseWeek(i, week_ranges[i], weekly_pairings[i])]))

BaseWeeklyResults(calendar, team_names) ==
    With(BaseWeeks(calendar, team_names), LAMBDA weeks :
        LET ids == UNION {{weeks[i].matchups[k].id : k \in DOMAIN weeks[i].matchups} : i \in DOMAIN weeks}
        IN  [id \in ids |-> NewEntry(id[2], weeks[id[2]].matchups[id[3] + 1].teams)])

_find_week_for_date(weeks, target_date) ==
    LET hits == {i \in DOMAIN weeks : weeks[i].start <= target_date /\ target_date <= weeks[i].end}
    IN  IF hits # {} THEN CHOOSE i \in hits : \A j \in hits : i <= j
        ELSE IF weeks # <<>> /\ target_date > weeks[Len(weeks)].end THEN Len(weeks)
        ELSE 0

(***************************************************************************)
(* Playoff configuration                                                   *)
(***************************************************************************)
VALID_PLAYOFF_TEAM_COUNTS == {4, 6, 8}

PLAYOFF_ROUNDS_REQUIRED == [n \in VALID_PLAYOFF_TEAM_COUNTS |-> IF n = 4 THEN 2 ELSE 3]

_required_playoff_rounds(team_count) == PLAYOFF_ROUNDS_REQUIRED[team_count]

\* PlayoffConfig(): the disabled default
DisabledConfig ==
    [enabled |-> FALSE, teams |-> 0, week_indices |-> <<>>, reseed |-> FALSE, consolation |-> FALSE]

is_enabled(config) == config.enabled /\ config.teams # 0 /\ config.week_indices # <<>>

\* the weeks taken in the order given, without sorting them first
SortedInts_AsGiven(xs) == xs

SortedInts(xs) == Undecorate(SortedByKey([i \in DOMAIN xs |-> [key |-> <<xs[i]>>, val |-> xs[i]]]))

\* a ValueError raised by validate_playoff_config
Invalid(message) == [ok |-> FALSE, config |-> DisabledConfig, error |-> message]

\* validate_playoff_config: [ok |-> FALSE] stands for the raised ValueError
validate_playoff_config(team_count, weeks, raw_config) ==
    IF ~raw_config.enabled THEN [ok |-> TRUE, config |-> DisabledConfig]
    ELSE IF raw_config.teams = 0 THEN Invalid("Playoff configuration is missing the number of teams.")
    ELSE IF raw_config.teams \notin VALID_PLAYOFF_TEAM_COUNTS THEN Invalid("Playoffs support 4, 6, 8 teams.")
    ELSE IF raw_config.teams > team_count
         THEN Invalid("Playoff team count cannot exceed total teams in the league.")
    ELSE IF Len(raw_config.week_indices) # _required_playoff_rounds(raw_config.teams)
         THEN Invalid("playoffs require a week per round.")
    ELSE LET sorted_weeks  == SortedInts(raw_config.week_indices)
             first_week    == sorted_weeks[1]
             expected      == [i \in DOMAIN sorted_weeks |-> first_week + i - 1]
             valid_indices == {weeks[i].index : i \in DOMAIN weeks}
         IN  IF sorted_weeks # expected THEN Invalid("Playoff weeks must be contiguous.")
             ELSE IF sorted_weeks[Len(sorted_weeks)] > Len(weeks)
                  THEN Invalid("Playoff weeks extend beyond the season calendar.")
             ELSE IF \E i \in DOMAIN sorted_weeks : sorted_weeks[i] \notin valid_indices
                  THEN Invalid("Week is not available in the season calendar.")
             ELSE [ok |-> TRUE, config |-> [raw_config EXCEPT !.week_indices = sorted_weeks]]

MinOf(xs) == CHOOSE x \in SeqToSet(xs) : \A y \in SeqToSet(xs) : x <= y

(***************************************************************************)
(* Standings                                                               *)
(***************************************************************************)
NoDate == -1

\* the date of the last history record, None without history
_latest_simulated_date(history) ==
    IF history = <<>> THEN NoDate ELSE history[Len(history)].date

\* a week counted as completed as soon as it has started
_week_status_NeverInProgress(week, latest_date) ==
    IF latest_date = NoDate THEN "not_started"
    ELSE IF latest_date < week.start THEN "not_started"
    ELSE "completed"

_week_status(week, latest_date) ==
    IF latest_date = NoDate THEN "not_started"
    ELSE IF latest_date < week.start THEN "not_started"
    ELSE IF latest_date > week.end THEN "completed"
    ELSE "in_progress"

\* round(n / d) to the nearest integer, halves to even (Python round)
RoundHalfEven(n, d) ==
    LET q == n \div d
        r == n % d
    IN  IF 2 * r < d THEN q
        ELSE IF 2 * r > d THEN q + 1
        ELSE IF q % 2 = 0 THEN q ELSE q + 1

\* win_pct in thousandths: round((wins + 0.5 * ties) / games_played, 3)
WinPct(wins, ties, games_played) ==
    IF games_played = 0 THEN 0 ELSE RoundHalfEven(1000 * (2 * wins + ties), 2 * games_played)

\* weekly total of a team in a weekly_results entry, 0.0 when absent
EntryTotal(weekly_results, id, team) ==
    IF id \in DOMAIN weekly_results /\ team \in DOMAIN weekly_results[id].teams
    THEN weekly_results[id].teams[team].total ELSE 0

\* the matchups the standings loop visits, each with its week status and totals
StandingsMatchups(st, through_week) ==
    LET latest_date == _latest_simulated_date(st.history)
        Visited(i) ==
            /\ ~(through_week # NoDate /\ st.weeks[i].index > through_week)
            /\ ~(is_enabled(st.playoffs_config)
                   /\ st.weeks[i].index \in SeqToSet(st.playoffs_config.week_indices))
            /\ _week_status(st.weeks[i], latest_date) # "not_started"
    IN  { [week    |-> i,
           status  |-> _week_status(st.weeks[i], latest_date),
           team_a  |-> st.weeks[i].matchups[k].teams[1],
           team_b  |-> st.weeks[i].matchups[k].teams[2],
           total_a |-> EntryTotal(st.weekly_results, st.weeks[i].matchups[k].id, st.weeks[i].matchups[k].teams[1]),
           total_b |-> EntryTotal(st.weekly_results, st.weeks[i].matchups[k].id, st.weeks[i].matchups[k].teams[2])]
          : <<i, k>> \in { p \in (DOMAIN st.weeks) \X (1..8) :
                             /\ p[2] \in DOMAIN st.weeks[p[1]].matchups
                             /\ Visited(p[1])
                             /\ st.weeks[p[1]].matchups[p[2]].teams[1] # NoTeam
                             /\ st.weeks[p[1]].matchups[p[2]].teams[2] # NoTeam } }

RECURSIVE SumOver(_, _)
SumOver(S, f) ==
    IF S = {} THEN 0
    ELSE LET x == CHOOSE y \in S : TRUE IN f[x] + SumOver(S \ {x}, f)

\* one standings row before ranking
StandingsRow(team, ms) ==
    LET mine   == {m \in ms : m.team_a = team \/ m.team_b = team}
        Own(m) == IF m.team_a = team THEN m.total_a ELSE m.total_b
        Opp(m) == IF m.team_a = team THEN m.total_b ELSE m.total_a
        done   == {m \in mine : m.status = "completed"}
        wins   == Cardinality({m \in done : Own(m) > Opp(m)})
        losses == Cardinality({m \in done : Own(m) < Opp(m)})
        ties   == Cardinality({m \in done : Own(m) = Opp(m)})
        pf     == SumOver(mine, [m \in mine |-> Own(m)])
        pa     == SumOver(mine, [m \in mine |-> Opp(m)])
    IN  [team |-> team, wins |-> wins, losses |-> losses, ties |-> ties,
         games_played |-> wins + losses + ties,
         win_pct |-> WinPct(wins, ties, wins + losses + ties),
         points_for |-> pf, points_against |-> pa, point_diff |-> pf - pa]

\* the last tie-break turned round: team names descending
StandingsKey_NameDescending(row) ==
    <<0 - row.win_pct, 0 - row.wins, 0 - row.point_diff, 0 - row.points_for, 0 - row.team>>

StandingsKey(row) ==
    <<0 - row.win_pct, 0 - row.wins, 0 - row.point_diff, 0 - row.points_for, row.team>>

\* compute_head_to_head_standings: the rows, best first (rank = position)
compute_head_to_head_standings(st, through_week) ==
    With(StandingsMatchups(st, through_week), LAMBDA ms :
    With([i \in DOMAIN st.team_names |-> StandingsRow(st.team_names[i], ms)], LAMBDA rows :
        Undecorate(SortedByKey([i \in DOMAIN rows |-> [key |-> StandingsKey(rows[i]), val |-> rows[i]]]))))

(***************************************************************************)
(* Playoff bracket: structure                                              *)
(***************************************************************************)
SeedSource(n)      == [type |-> "seed",   seed |-> n, round |-> 0, match |-> 0]
WinnerSource(r, m) == [type |-> "winner", seed |-> 0, round |-> r, match |-> m]

\* the pairs laid out in plain seed order: no crossing of the byes with the
\* first-round winners, and 1v8, 2v7, 3v6, 4v5 for eight teams
_round_definitions_SeedOrder(team_count) ==
    IF team_count = 4 THEN
        << << <<SeedSource(1), SeedSource(4)>>, <<SeedSource(2), SeedSource(3)>> >>,
           << <<WinnerSource(1, 1), WinnerSource(1, 2)>> >> >>
    ELSE IF team_count = 6 THEN
        << << <<SeedSource(3), SeedSource(6)>>, <<SeedSource(4), SeedSource(5)>> >>,
           << <<SeedSource(1), WinnerSource(1, 1)>>, <<SeedSource(2), WinnerSource(1, 2)>> >>,
           << <<WinnerSource(2, 1), WinnerSource(2, 2)>> >> >>
    ELSE
        << << <<SeedSource(1), SeedSource(8)>>, <<SeedSource(2), SeedSource(7)>>,
              <<SeedSource(3), SeedSource(6)>>, <<SeedSource(4), SeedSource(5)>> >>,
           << <<WinnerSource(1, 1), WinnerSource(1, 2)>>, <<WinnerSource(1, 3), WinnerSource(1, 4)>> >>,
           << <<WinnerSource(2, 1), WinnerSource(2, 2)>> >> >>

\* _round_definitions: per round, the (home source, away source) pairs
_round_definitions(team_count) ==
    IF team_count = 4 THEN
        << << <<SeedSource(1), SeedSource(4)>>, <<SeedSource(2), SeedSource(3)>> >>,
           << <<WinnerSource(1, 1), WinnerSource(1, 2)>> >> >>
    ELSE IF team_count = 6 THEN
        << << <<SeedSource(3), SeedSource(6)>>, <<SeedSource(4), SeedSource(5)>> >>,
           << <<SeedSource(1), WinnerSource(1, 2)>>, <<SeedSource(2), WinnerSource(1, 1)>> >>,
           << <<WinnerSource(2, 1), WinnerSource(2, 2)>> >> >>
    ELSE
        << << <<SeedSource(1), SeedSource(8)>>, <<SeedSource(4), SeedSource(5)>>,
              <<SeedSource(3), SeedSource(6)>>, <<SeedSource(2), SeedSource(7)>> >>,
           << <<WinnerSource(1, 1), WinnerSource(1, 2)>>, <<WinnerSource(1, 3), WinnerSource(1, 4)>> >>,
           << <<WinnerSource(2, 1), WinnerSource(2, 2)>> >> >>

NoParty == [team |-> NoTeam, seed |-> NoSeed, total |-> 0]

\* state.playoffs = None
NoPlayoffs ==
    [exists |-> FALSE, started |-> FALSE, completed |-> FALSE, current_round |-> 0,
     seeds |-> <<>>, int_keys |-> TRUE, rounds |-> <<>>, elimination_log |-> <<>>,
     has_placements |-> FALSE, placements |-> <<>>]

\* the seeds handed out in the order of the league's team list
PlayoffSeeds_LeagueOrder(st) == [k \in 1..st.playoffs_config.teams |-> st.team_names[k]]

\* the seeds: the first config.teams standings rows, seed k being row k
PlayoffSeeds(st) ==
    LET config           == st.playoffs_config
        start_week       == MinOf(config.week_indices)
        standings_cutoff == IF start_week > 0 THEN start_week - 1 ELSE NoDate
        standings        == compute_head_to_head_standings(st, standings_cutoff)
    IN  [k \in 1..config.teams |-> standings[k].team]

\* team of a seed in the structure built at initialisation (int keys)
SeedTeam(seeds, n) == IF n \in DOMAIN seeds THEN seeds[n] ELSE NoTeam

\* one bracket matchup as _initialize_playoffs stores it
InitialMatch(round_index, match_idx, pair, seeds) ==
    [id          |-> <<round_index, match_idx>>,
     matchup_id  |-> PlayoffMatchupId(round_index, match_idx),
     sources     |-> [home |-> pair[1], away |-> pair[2]],
     home_seed   |-> IF pair[1].type = "seed" THEN pair[1].seed ELSE NoSeed,
     away_seed   |-> IF pair[2].type = "seed" THEN pair[2].seed ELSE NoSeed,
     home_team   |-> IF pair[1].type = "seed" THEN SeedTeam(seeds, pair[1].seed) ELSE NoTeam,
     away_team   |-> IF pair[2].type = "seed" THEN SeedTeam(seeds, pair[2].seed) ELSE NoTeam,
     status      |-> "scheduled",
     has_winner  |-> FALSE,
     winner      |-> NoParty,
     loser       |-> NoParty,
     home_total  |-> 0,
     away_total  |-> 0]

\* _generate_playoff_structure + the rounds_state loop of _initialize_playoffs
InitialRounds(st, seeds) ==
    LET config == st.playoffs_config
        defs   == _round_definitions(config.teams)
    IN  [r \in DOMAIN defs |->
           [index      |-> r,
            week_index |-> config.week_indices[IF r - 1 < Len(config.week_indices) - 1
                                               THEN r ELSE Len(config.week_indices)],
            status     |-> "pending",
            matchups   |-> [m \in DOMAIN defs[r] |-> InitialMatch(r, m, defs[r][m], seeds)]]]

(***************************************************************************)
(* Playoff bracket: binding rounds onto weeks                              *)
(***************************************************************************)
\* the team a bracket slot shows in the week: the slot's team, else its seed's team
SlotTeam(playoffs, team, seed) ==
    IF team # NoTeam THEN team
    ELSE IF seed # NoSeed THEN SeedTeam(playoffs.seeds, seed)
    ELSE NoTeam

\* _initialize_playoff_matchup_result over a list of (id, home, away)
RECURSIVE InitMatchupResults(_, _, _)
InitMatchupResults(weekly_results, week_index, payload) ==
    IF payload = <<>> THEN weekly_results
    ELSE InitMatchupResults(
            DictPut(weekly_results, Head(payload).id, NewEntry(week_index, Head(payload).teams)),
            week_index, Tail(payload))

RECURSIVE PopAll(_, _)
PopAll(d, ids) ==
    IF ids = {} THEN d
    ELSE LET id == CHOOSE x \in ids : TRUE IN PopAll(DictPop(d, id), ids \ {id})

_apply_playoff_round_to_week(st, round_index) ==
    LET round_entry == st.playoffs.rounds[round_index]
        week_index  == round_entry.week_index
    IN  IF week_index <= 0 \/ week_index > Len(st.weeks) THEN st
        ELSE With([m \in DOMAIN round_entry.matchups |->
                     LET match == round_entry.matchups[m]
                     IN  [id    |-> match.matchup_id,
                          teams |-> <<SlotTeam(st.playoffs, match.home_team, match.home_seed),
                                      SlotTeam(st.playoffs, match.away_team, match.away_seed)>>]],
                  LAMBDA payload :
                LET week         == st.weeks[week_index]
                    existing_ids == {week.matchups[k].id : k \in DOMAIN week.matchups}
                    new_ids      == {payload[m].id : m \in DOMAIN payload}
                    results      == InitMatchupResults(st.weekly_results, week_index, payload)
                IN  [st EXCEPT
                       !.weeks[week_index].matchups = payload,
                       !.weeks[week_index].playoff_round = round_entry.index,
                       !.weeks[week_index].status =
                           IF round_entry.status = "completed" THEN "completed" ELSE @,
                       !.weekly_results = PopAll(results, existing_ids \ new_ids)])

\* a winner source resolved to the loser of the matchup it names
_resolve_playoff_source_Loser(source, playoffs, previous_round) ==
    IF source.type = "seed"
    THEN [team |-> IF playoffs.int_keys THEN SeedTeam(playoffs.seeds, source.seed) ELSE NoTeam,
          seed |-> source.seed]
    ELSE IF /\ previous_round # 0
            /\ source.round = previous_round
            /\ source.match \in DOMAIN playoffs.rounds[previous_round].matchups
            /\ playoffs.rounds[previous_round].matchups[source.match].has_winner
         THEN [team |-> playoffs.rounds[previous_round].matchups[source.match].loser.team,
               seed |-> playoffs.rounds[previous_round].matchups[source.match].loser.seed]
         ELSE [team |-> NoTeam, seed |-> NoSeed]

\* _resolve_playoff_source; winner_lookup maps a match index of the previous
\* round to its "winner" value, seeds are found only under integer keys
_resolve_playoff_source(source, playoffs, previous_round) ==
    IF source.type = "seed"
    THEN [team |-> IF playoffs.int_keys THEN SeedTeam(playoffs.seeds, source.seed) ELSE NoTeam,
          seed |-> source.seed]
    ELSE IF /\ previous_round # 0
            /\ source.round = previous_round
            /\ source.match \in DOMAIN playoffs.rounds[previous_round].matchups
            /\ playoffs.rounds[previous_round].matchups[source.match].has_winner
         THEN [team |-> playoffs.rounds[previous_round].matchups[source.match].winner.team,
               seed |-> playoffs.rounds[previous_round].matchups[source.match].winner.seed]
         ELSE [team |-> NoTeam, seed |-> NoSeed]

_assign_next_round_matchup(match, home_info, away_info) ==
    [match EXCEPT !.home_team = home_info.team, !.away_team = away_info.team,
                  !.home_seed = home_info.seed, !.away_seed = away_info.seed,
                  !.status = "scheduled", !.has_winner = FALSE,
                  !.winner = NoParty, !.loser = NoParty,
                  !.home_total = 0, !.away_total = 0]

\* the reseeded pairs: best seed against worst, a lone team against a placeholder
RECURSIVE ReseedPairs(_)
ReseedPairs(seeded_winners) ==
    IF Len(seeded_winners) >= 2
    THEN <<<<seeded_winners[1], seeded_winners[Len(seeded_winners)]>>>>
           \o ReseedPairs(SubSeq(seeded_winners, 2, Len(seeded_winners) - 1))
    ELSE IF Len(seeded_winners) = 1
    THEN <<<<seeded_winners[1], [team |-> NoTeam, seed |-> NoSeed]>>>>
    ELSE <<>>

_prepare_next_round(st, next_index, winners) ==
    With(FilterSeq(winners, LAMBDA w : w.seed # NoSeed), LAMBDA seeded :
    With(ReseedPairs(Undecorate(SortedByKey(
             [i \in DOMAIN seeded |-> [key |-> <<seeded[i].seed>>, val |-> seeded[i]]]))),
         LAMBDA pairs :
        LET config         == st.playoffs_config
            previous_round == IF next_index - 1 >= 1 /\ next_index - 1 <= Len(st.playoffs.rounds)
                              THEN next_index - 1 ELSE 0
            next_round     == st.playoffs.rounds[next_index]
            new_matchups   ==
                IF config.reseed /\ next_index > 1
                THEN [m \in DOMAIN next_round.matchups |->
                        IF m <= Len(pairs)
                        THEN _assign_next_round_matchup(next_round.matchups[m], pairs[m][1], pairs[m][2])
                        ELSE next_round.matchups[m]]
                ELSE [m \in DOMAIN next_round.matchups |->
                        _assign_next_round_matchup(
                            next_round.matchups[m],
                            _resolve_playoff_source(next_round.matchups[m].sources.home, st.playoffs, previous_round),
                            _resolve_playoff_source(next_round.matchups[m].sources.away, st.playoffs, previous_round))]
            assigned       == [st EXCEPT !.playoffs.rounds[next_index].matchups = new_matchups]
            applied        == _apply_playoff_round_to_week(assigned, next_index)
        IN  [applied EXCEPT !.playoffs.rounds[next_index].status = "pending"]))

(***************************************************************************)
(* Weekly aggregation                                                      *)
(***************************************************************************)
\* index of the bracket round bound to a week, 0 when there is none
RoundForWeek(playoffs, week_index) ==
    LET hits == {r \in DOMAIN playoffs.rounds : playoffs.rounds[r].week_index = week_index}
    IN  IF hits = {} THEN 0 ELSE CHOOSE r \in hits : \A q \in hits : r <= q

\* the bracket pairings of a week as matchups, <<>> standing for None
_get_playoff_matchups_for_week(st, week_index) ==
    IF ~st.playoffs.exists \/ week_index = 0 THEN <<>>
    ELSE LET r == RoundForWeek(st.playoffs, week_index)
         IN  IF r = 0 THEN <<>>
             ELSE [m \in DOMAIN st.playoffs.rounds[r].matchups |->
                     LET match == st.playoffs.rounds[r].matchups[m]
                     IN  [id    |-> match.matchup_id,
                          teams |-> <<SlotTeam(st.playoffs, match.home_team, match.home_seed),
                                      SlotTeam(st.playoffs, match.away_team, match.away_seed)>>]]

\* the running totals after one more day total of one team
AddDayTotal(team_entry, iso_date, total) ==
    [total        |-> team_entry.total + total,
     daily_totals |-> DictPut(team_entry.daily_totals, iso_date,
                              DictGet(team_entry.daily_totals, iso_date, 0) + total)]

\* the body of the loop of _update_weekly_totals for one team result
UpdateOneResult(weekly_results, matchups, week_index, result, iso_date) ==
    LET hits == {k \in DOMAIN matchups :
                    result.team # NoTeam /\ result.team \in SeqToSet(matchups[k].teams)}
    IN  IF hits = {} THEN weekly_results
        ELSE LET target     == matchups[CHOOSE k \in hits : \A j \in hits : k <= j]
                 entry      == IF target.id \in DOMAIN weekly_results
                               THEN weekly_results[target.id]
                               ELSE NewEntry(week_index, target.teams)
                 known      == result.team \in DOMAIN entry.teams
                 team_entry == IF known THEN entry.teams[result.team] ELSE ZeroTeamEntry
                 updated    == [week_index |-> entry.week_index,
                                order      |-> IF known THEN entry.order ELSE Append(entry.order, result.team),
                                teams      |-> DictPut(entry.teams, result.team,
                                                       AddDayTotal(team_entry, iso_date, result.total)),
                                days       |-> IF iso_date \in SeqToSet(entry.days)
                                               THEN entry.days ELSE Append(entry.days, iso_date)]
             IN  DictPut(weekly_results, target.id, updated)

RECURSIVE UpdateResultsLoop(_, _, _, _, _)
UpdateResultsLoop(weekly_results, matchups, week_index, team_results, iso_date) ==
    IF team_results = <<>> THEN weekly_results
    ELSE UpdateResultsLoop(
            UpdateOneResult(weekly_results, matchups, week_index, Head(team_results), iso_date),
            matchups, week_index, Tail(team_results), iso_date)

_update_weekly_totals(st, week_index, team_results, current_date) ==
    IF week_index = 0 THEN st
    ELSE With(_get_playoff_matchups_for_week(st, week_index), LAMBDA overlay :
            LET matchups == IF overlay # <<>> THEN overlay ELSE st.weeks[week_index].matchups
            IN  [st EXCEPT !.weekly_results =
                    UpdateResultsLoop(st.weekly_results, matchups, week_index, team_results, current_date)])

(***************************************************************************)
(* Playoff bracket: resolving a round                                      *)
(***************************************************************************)
\* the tie-break forgotten: on equal totals the home side always wins
WinnerIsHome_TieToHome(total_home, total_away, seed_home, seed_away) == total_home >= total_away

\* whether the home side wins a bracket matchup
WinnerIsHome(total_home, total_away, seed_home, seed_away) ==
    IF total_home = total_away
    THEN IF seed_home # NoSeed /\ seed_away # NoSeed THEN seed_home < seed_away ELSE TRUE
    ELSE total_home > total_away

\* one bracket matchup resolved against its weekly entry
ResolveMatch(match, entry) ==
    LET home_team  == IF match.home_team = NoTeam /\ entry.order # <<>>
                      THEN entry.order[1] ELSE match.home_team
        away_team  == IF match.away_team = NoTeam /\ Len(entry.order) > 1
                      THEN entry.order[2] ELSE match.away_team
        total_home == IF home_team \in DOMAIN entry.teams THEN entry.teams[home_team].total ELSE 0
        total_away == IF away_team \in DOMAIN entry.teams THEN entry.teams[away_team].total ELSE 0
        home       == [team |-> home_team, seed |-> match.home_seed, total |-> total_home]
        away       == [team |-> away_team, seed |-> match.away_seed, total |-> total_away]
        home_wins  == WinnerIsHome(total_home, total_away, match.home_seed, match.away_seed)
    IN  [match EXCEPT !.status = "completed", !.has_winner = TRUE,
                      !.winner = IF home_wins THEN home ELSE away,
                      !.loser  = IF home_wins THEN away ELSE home,
                      !.home_total = total_home, !.away_total = total_away]

\* the matchups of a round after the resolving loop: a matchup without a
\* weekly entry is skipped
ResolvedMatchups(st, round_index) ==
    LET matchups == st.playoffs.rounds[round_index].matchups
    IN  [m \in DOMAIN matchups |->
           IF matchups[m].matchup_id \in DOMAIN st.weekly_results
           THEN ResolveMatch(matchups[m], st.weekly_results[matchups[m].matchup_id])
           ELSE matchups[m]]

\* winners / losers appended by the loop, in matchup order
ResolvedParties(st, round_index, resolved, side) ==
    LET matchups == st.playoffs.rounds[round_index].matchups
        done     == FilterSeq([m \in DOMAIN matchups |-> m],
                              LAMBDA m : matchups[m].matchup_id \in DOMAIN st.weekly_results)
    IN  [i \in DOMAIN done |->
           IF side = "winner"
           THEN [team |-> resolved[done[i]].winner.team, seed |-> resolved[done[i]].winner.seed]
           ELSE [team |-> resolved[done[i]].loser.team, seed |-> resolved[done[i]].loser.seed]]

\* the order in which elimination records are walked for the placements
EliminationOrderKey(record) == <<record.round>>

\* the teams of a list in order, None and repeats dropped (_add_placement)
RECURSIVE AddPlacements(_, _)
AddPlacements(placements, teams) ==
    IF teams = <<>> THEN placements
    ELSE IF Head(teams) = NoTeam \/ Head(teams) \in SeqToSet(placements)
         THEN AddPlacements(placements, Tail(teams))
         ELSE AddPlacements(Append(placements, Head(teams)), Tail(teams))

RECURSIVE LoserTeams(_)
LoserTeams(records) ==
    IF records = <<>> THEN <<>>
    ELSE [i \in DOMAIN Head(records).losers |-> Head(records).losers[i].team]
           \o LoserTeams(Tail(records))

ComputePlacements(final_round, elimination_log) ==
    LET has_final == final_round.matchups # <<>> /\ final_round.matchups[1].has_winner
        champion  == IF has_final THEN final_round.matchups[1].winner.team ELSE NoTeam
        runner_up == IF has_final THEN final_round.matchups[1].loser.team ELSE NoTeam
        ordered   == Undecorate(SortedByKey(
                        [i \in DOMAIN elimination_log |->
                            [key |-> EliminationOrderKey(elimination_log[i]), val |-> elimination_log[i]]]))
        others    == FilterSeq(LoserTeams(ordered), LAMBDA t : t # champion /\ t # runner_up)
    IN  AddPlacements(<<>>, <<champion, runner_up>> \o others)

\* an off-by-one in the test for a following round: the round before the
\* final is taken for the final
HasNextRound_OffByOne(current_round_index, rounds) == current_round_index < Len(rounds) - 1

\* whether a resolved round is followed by another one
HasNextRound(current_round_index, rounds) == current_round_index < Len(rounds)

_finalize_playoff_round(st, week_index) ==
    With(RoundForWeek(st.playoffs, week_index), LAMBDA r :
    IF r = 0 \/ st.playoffs.rounds[r].status = "completed" THEN st
    ELSE With(ResolvedMatchups(st, r), LAMBDA resolved :
         With(st.playoffs.rounds[r].index, LAMBDA index :
         With([st EXCEPT
                 !.playoffs.rounds[r].matchups = resolved,
                 !.playoffs.rounds[r].status = "completed",
                 !.playoffs.elimination_log =
                     Append(@, [round |-> index, losers |-> ResolvedParties(st, r, resolved, "loser")]),
                 !.playoffs.current_round = index],
              LAMBDA closed :
            IF HasNextRound(index, closed.playoffs.rounds)
            THEN [_prepare_next_round(closed, index + 1, ResolvedParties(st, r, resolved, "winner"))
                     EXCEPT !.playoffs.current_round = index + 1]
            ELSE [closed EXCEPT
                     !.playoffs.completed = TRUE,
                     !.phase = "finished",
                     !.playoffs.has_placements = TRUE,
                     !.playoffs.placements =
                         ComputePlacements(closed.playoffs.rounds[r], closed.playoffs.elimination_log)]))))

_finalize_week(st, week_index) ==
    IF ~(1 <= week_index /\ week_index <= Len(st.weeks)) THEN st
    ELSE IF st.weeks[week_index].status = "completed" THEN st
    ELSE LET resolved == IF /\ is_enabled(st.playoffs_config)
                            /\ week_index \in SeqToSet(st.playoffs_config.week_indices)
                            /\ st.playoffs.exists
                         THEN _finalize_playoff_round(st, week_index) ELSE st
         IN  [resolved EXCEPT !.weeks[week_index].status = "completed"]

_maybe_finalize_week(st, week_index, current_date) ==
    IF week_index <= 0 THEN st
    ELSE IF st.weeks[week_index].status = "completed" THEN st
    ELSE IF current_date >= st.weeks[week_index].end THEN _finalize_week(st, week_index)
    ELSE st

(***************************************************************************)
(* Playoff bracket: start                                                  *)
(***************************************************************************)
\* the bracket started in whatever week the cursor is in
_playoffs_should_start_AnyWeek(st, week_index) ==
    /\ is_enabled(st.playoffs_config)
    /\ ~(st.playoffs.exists /\ st.playoffs.started)

_playoffs_should_start(st, week_index) ==
    /\ is_enabled(st.playoffs_config)
    /\ ~(st.playoffs.exists /\ st.playoffs.started)
    /\ week_index = MinOf(st.playoffs_config.week_indices)

_initialize_playoffs(st) ==
    With(PlayoffSeeds(st), LAMBDA seeds :
    With([st EXCEPT
            !.playoffs = [exists |-> TRUE, started |-> TRUE, completed |-> FALSE,
                          current_round |-> 1, seeds |-> seeds, int_keys |-> TRUE,
                          rounds |-> InitialRounds(st, seeds),
                          elimination_log |-> <<>>,
                          has_placements |-> FALSE, placements |-> <<>>],
            !.phase = "playoffs"],
         LAMBDA started :
            IF started.playoffs.rounds = <<>> THEN started
            ELSE [_prepare_next_round(started, 1, <<>>) EXCEPT !.playoffs.rounds[1].status = "active"]))

_ensure_playoff_round_active(st, week_index) ==
    IF ~st.playoffs.exists \/ week_index = 0 THEN st
    ELSE LET r == RoundForWeek(st.playoffs, week_index)
         IN  IF r # 0 /\ st.playoffs.rounds[r].status = "pending"
             THEN _apply_playoff_round_to_week([st EXCEPT !.playoffs.rounds[r].status = "active"], r)
             ELSE st

_maybe_initialize_playoffs(st, week_index) ==
    IF _playoffs_should_start(st, week_index) THEN _initialize_playoffs(st) ELSE st

(***************************************************************************)
(* Draft engine                                                            *)
(***************************************************************************)
\* how a call ends: it returns, or it raises a ValueError with a message
Return(st) == [ok |-> TRUE, st |-> st, error |-> ""]

Raise(st, message) == [ok |-> FALSE, st |-> st, error |-> message]

\* state.draft_state = None
NoDraft ==
    [exists |-> FALSE, status |-> "", roster_size |-> 0, user_team |-> NoTeam,
     user_picks |-> <<>>, taken_ids |-> <<>>, ordered_ids |-> <<>>]

\* the new draft state marked completed from the start
_initialize_draft_state_Completed(ordered_ids, roster_size, user_team) ==
    [exists |-> TRUE, status |-> "completed", roster_size |-> roster_size, user_team |-> user_team,
     user_picks |-> <<>>, taken_ids |-> <<>>, ordered_ids |-> ordered_ids]

_initialize_draft_state(ordered_ids, roster_size, user_team) ==
    [exists |-> TRUE, status |-> "pending", roster_size |-> roster_size, user_team |-> user_team,
     user_picks |-> <<>>, taken_ids |-> <<>>, ordered_ids |-> ordered_ids]

RosterIds(rosters) == UNION {SeqToSet(rosters[t]) : t \in DOMAIN rosters}

\* index of the first candidate at or after index that is not taken
RECURSIVE SkipTaken(_, _, _)
SkipTaken(candidate_ids, index, taken) ==
    IF index <= Len(candidate_ids) /\ candidate_ids[index] \in taken
    THEN SkipTaken(candidate_ids, index + 1, taken)
    ELSE index

\* the while/for loops of _auto_draft_teams; pos walks team_list, index the candidates
RECURSIVE AutoDraftLoop(_, _, _, _, _, _, _, _)
AutoDraftLoop(rosters, taken, index, candidate_ids, team_list, roster_size, pos, assigned_any) ==
    IF pos > Len(team_list)
    THEN IF assigned_any
         THEN AutoDraftLoop(rosters, taken, index, candidate_ids, team_list, roster_size, 1, FALSE)
         ELSE rosters
    ELSE IF Len(rosters[team_list[pos]]) >= roster_size
    THEN AutoDraftLoop(rosters, taken, index, candidate_ids, team_list, roster_size, pos + 1, assigned_any)
    ELSE LET next == SkipTaken(candidate_ids, index, taken)
         IN  IF next > Len(candidate_ids) THEN rosters
             ELSE AutoDraftLoop([rosters EXCEPT ![team_list[pos]] = Append(@, candidate_ids[next])],
                                taken \cup {candidate_ids[next]}, next + 1,
                                candidate_ids, team_list, roster_size, pos + 1, TRUE)

\* the players already on a roster not counted as taken
_auto_draft_teams_IgnoreExisting(candidate_ids, team_names, roster_size, existing_rosters) ==
    AutoDraftLoop(existing_rosters, {}, 1, candidate_ids, team_names, roster_size, 1, FALSE)

\* every team filled up before the next one gets a player
_auto_draft_teams_TeamByTeam(candidate_ids, team_names, roster_size, existing_rosters) ==
    [team \in DOMAIN existing_rosters |->
        LET i     == CHOOSE k \in DOMAIN team_names : team_names[k] = team
            first == (i - 1) * roster_size + 1
            last  == IF i * roster_size < Len(candidate_ids) THEN i * roster_size ELSE Len(candidate_ids)
        IN  IF first > last THEN <<>> ELSE SubSeq(candidate_ids, first, last)]

_auto_draft_teams(candidate_ids, team_names, roster_size, existing_rosters) ==
    AutoDraftLoop(existing_rosters, RosterIds(existing_rosters), 1,
                  candidate_ids, team_names, roster_size, 1, FALSE)

\* every roster's ids, roster after roster in dict order
RECURSIVE RosterList(_, _)
RosterList(rosters, team_names) ==
    IF team_names = <<>> THEN <<>>
    ELSE rosters[Head(team_names)] \o RosterList(rosters, Tail(team_names))

EmptyRosters(team_names) == [t \in SeqToSet(team_names) |-> <<>>]

draft_is_active(st) == st.draft_state.exists /\ st.draft_state.status # "completed"

draft_remaining_slots(st) ==
    IF ~draft_is_active(st) THEN 0
    ELSE LET left == st.draft_state.roster_size - Len(st.rosters[st.draft_state.user_team])
         IN  IF left > 0 THEN left ELSE 0

\* ids already taken: taken_ids, user_picks and every roster
DraftTaken(st) ==
    SeqToSet(st.draft_state.taken_ids) \cup SeqToSet(st.draft_state.user_picks) \cup RosterIds(st.rosters)

draft_available_player_ids(st) ==
    FilterSeq(st.draft_state.ordered_ids, LAMBDA pid : pid \notin DraftTaken(st))

\* the guards of draft_pick_player without the look at the taken players
CanPick_IgnoreTaken(st, pid) ==
    /\ draft_is_active(st)
    /\ st.draft_state.user_team # NoTeam
    /\ Len(st.rosters[st.draft_state.user_team]) < st.draft_state.roster_size

\* the guards of draft_pick_player: TRUE when the pick is accepted
CanPick(st, pid) ==
    /\ draft_is_active(st)
    /\ st.draft_state.user_team # NoTeam
    /\ Len(st.rosters[st.draft_state.user_team]) < st.draft_state.roster_size
    /\ pid \notin DraftTaken(st)

\* the message of the ValueError draft_pick_player raises when ~CanPick
PickError(st, pid) ==
    IF ~draft_is_active(st) THEN "Draft is not currently active for this league."
    ELSE IF st.draft_state.user_team = NoTeam THEN "Draft configuration is missing the user team."
    ELSE IF Len(st.rosters[st.draft_state.user_team]) >= st.draft_state.roster_size
         THEN "Roster is already full."
    ELSE "Player has already been drafted."

\* draft_pick_player: [ok |-> FALSE] stands for the raised ValueError
draft_pick_player(st, pid) ==
    IF ~CanPick(st, pid) THEN Raise(st, PickError(st, pid))
    ELSE [ok |-> TRUE, error |-> "",
          st |-> [st EXCEPT !.rosters[st.draft_state.user_team] = Append(@, pid),
                            !.draft_state.user_picks = Append(@, pid),
                            !.draft_state.taken_ids = Append(@, pid)]]

\* the pool draft_autodraft_current draws from: the best five available
AutodraftPool(st) ==
    LET available == draft_available_player_ids(st)
    IN  SubSeq(available, 1, IF Len(available) < 5 THEN Len(available) ELSE 5)

finalize_draft(st) ==
    IF ~draft_is_active(st) THEN Return(st)
    ELSE IF st.draft_state.user_team = NoTeam
         THEN Raise(st, "Draft configuration missing user team assignment.")
    ELSE IF Len(st.rosters[st.draft_state.user_team]) < st.draft_state.roster_size
         THEN Raise(st, "Fill your roster before completing the draft.")
    ELSE LET updated_rosters == _auto_draft_teams(st.draft_state.ordered_ids, st.team_names,
                                                  st.draft_state.roster_size, st.rosters)
         IN  [ok |-> TRUE, error |-> "",
              st |-> [st EXCEPT
                        !.rosters = updated_rosters,
                        !.draft_state =
                            [exists |-> TRUE, status |-> "completed", roster_size |-> 0,
                             user_team |-> st.draft_state.user_team,
                             user_picks |-> st.draft_state.user_picks,
                             taken_ids |-> RosterList(updated_rosters, st.team_names),
                             ordered_ids |-> <<>>]]]

(***************************************************************************)
(* League state machine                                                    *)
(***************************************************************************)
\* LeagueState.current_date, NoDate when the cursor is outside the calendar
current_date(st) ==
    IF 0 <= st.current_index /\ st.current_index < Len(st.calendar)
    THEN st.calendar[st.current_index + 1] ELSE NoDate

\* simulate_day without its last guard: an already simulated date is accepted
CanSimulate_NoAwaitingGuard(st) ==
    /\ current_date(st) # NoDate
    /\ st.phase # "finished"
    /\ ~draft_is_active(st)

\* the guards of simulate_day: TRUE when the day is simulated
CanSimulate(st) ==
    /\ current_date(st) # NoDate
    /\ st.phase # "finished"
    /\ ~draft_is_active(st)
    /\ st.awaiting_simulation

\* the team results of a date: a team without players scores 0.0, the list is
\* sorted by total, highest first
TeamResults(st, scores) ==
    LET raw == [i \in DOMAIN st.team_names |->
                  [team  |-> st.team_names[i],
                   total |-> IF st.rosters[st.team_names[i]] = <<>> THEN 0 ELSE scores[st.team_names[i]]]]
    IN  Undecorate(SortedByKey([i \in DOMAIN raw |-> [key |-> <<0 - raw[i].total>>, val |-> raw[i]]]))

\* the new record appended without dropping the earlier record of the date
ReplaceDayRecord_AppendOnly(history, day_record) == Append(history, day_record)

\* state.history without the records of a date, then the new record
ReplaceDayRecord(history, day_record) ==
    Append(FilterSeq(history, LAMBDA record : record.date # day_record.date), day_record)

\* the message of the ValueError simulate_day raises when ~CanSimulate
SimulateError(st) ==
    IF current_date(st) = NoDate THEN "The season simulation has already completed."
    ELSE IF st.phase = "finished" THEN "This league has completed the playoffs."
    ELSE IF draft_is_active(st) THEN "Complete the draft before simulating games."
    ELSE "Today's games have already been simulated."

\* simulate_day: [ok |-> FALSE] stands for the raised ValueError
simulate_day(st, scores) ==
    IF ~CanSimulate(st) THEN Raise(st, SimulateError(st))
    ELSE With(current_date(st), LAMBDA today :
         With(_find_week_for_date(st.weeks, today), LAMBDA week_index :
         With(_ensure_playoff_round_active(_maybe_initialize_playoffs(st, week_index), week_index),
              LAMBDA active :
         With(TeamResults(active, scores), LAMBDA team_results :
            LET totalled   == _update_weekly_totals(active, week_index, team_results, today)
                day_record == [date |-> today, week_index |-> week_index, team_results |-> team_results]
                recorded   == [totalled EXCEPT !.history = ReplaceDayRecord(@, day_record)]
                finalized  == _maybe_finalize_week(recorded, week_index, today)
            IN  Return([finalized EXCEPT !.awaiting_simulation = FALSE])))))

\* advance_league_day without its last guard: an unplayed date is skipped
CanAdvance_NoAwaitingGuard(st) ==
    /\ ~draft_is_active(st)
    /\ st.phase # "finished"

\* the guards of advance_league_day: TRUE when the call does not raise
CanAdvance(st) ==
    /\ ~draft_is_active(st)
    /\ st.phase # "finished"
    /\ ~(st.awaiting_simulation /\ current_date(st) # NoDate)

\* the message of the ValueError advance_league_day raises when ~CanAdvance
AdvanceError(st) ==
    IF draft_is_active(st) THEN "Complete the draft before advancing the season."
    ELSE IF st.phase = "finished" THEN "This league has completed the playoffs."
    ELSE "Play today's games before advancing to the next day."

\* the cursor moved on although today's games were not played
advance_league_day_Unplayed(st) ==
    IF draft_is_active(st) \/ st.phase = "finished" THEN Raise(st, AdvanceError(st))
    ELSE IF current_date(st) = NoDate
         THEN Return([st EXCEPT !.awaiting_simulation = FALSE])
    ELSE IF st.current_index >= Len(st.calendar) - 1
         THEN Return([st EXCEPT !.current_index = Len(st.calendar),
                                !.awaiting_simulation = FALSE])
    ELSE Return([st EXCEPT !.current_index = @ + 1,
                           !.awaiting_simulation = TRUE])

\* past the last date the cursor goes back to the first one
advance_league_day_WrapAround(st) ==
    IF ~CanAdvance(st) THEN Raise(st, AdvanceError(st))
    ELSE IF current_date(st) = NoDate
         THEN Return([st EXCEPT !.awaiting_simulation = FALSE])
    ELSE IF st.current_index >= Len(st.calendar) - 1
         THEN Return([st EXCEPT !.current_index = 0,
                                !.awaiting_simulation = TRUE])
    ELSE Return([st EXCEPT !.current_index = @ + 1,
                           !.awaiting_simulation = TRUE])

advance_league_day(st) ==
    IF ~CanAdvance(st) THEN Raise(st, AdvanceError(st))
    ELSE IF current_date(st) = NoDate
         THEN Return([st EXCEPT !.awaiting_simulation = FALSE])
    ELSE IF st.current_index >= Len(st.calendar) - 1
         THEN Return([st EXCEPT !.current_index = Len(st.calendar),
                                !.awaiting_simulation = FALSE])
    ELSE Return([st EXCEPT !.current_index = @ + 1,
                           !.awaiting_simulation = TRUE])

PlayoffsStarted(st) == st.playoffs.exists /\ st.playoffs.started

\* the while loop of simulate_until_playoffs; logs gives the scores of each date
RECURSIVE UntilPlayoffsLoop(_, _, _, _)
UntilPlayoffsLoop(st, logs, iterations, max_iterations) ==
    IF PlayoffsStarted(st) THEN Return(st)
    ELSE IF current_date(st) = NoDate THEN Return(st)
    ELSE With(_find_week_for_date(st.weeks, current_date(st)), LAMBDA week_index :
         IF st.awaiting_simulation /\ _playoffs_should_start(st, week_index)
         THEN Return(_ensure_playoff_round_active(_initialize_playoffs(st), week_index))
         ELSE With(IF st.awaiting_simulation
                   THEN simulate_day(st, logs[current_date(st)])
                   ELSE advance_league_day(st),
                   LAMBDA step :
              IF ~step.ok THEN step
              ELSE IF iterations + 1 > max_iterations
                   THEN Raise(step.st, "Unable to reach playoff start. Check the playoff configuration.")
              ELSE UntilPlayoffsLoop(step.st, logs, iterations + 1, max_iterations)))

\* the loop given a single iteration
simulate_until_playoffs_OneIteration(st, logs) ==
    IF ~is_enabled(st.playoffs_config)
    THEN Raise(st, "Enable playoffs before simulating to their start.")
    ELSE IF PlayoffsStarted(st) THEN Return(st)
    ELSE UntilPlayoffsLoop(st, logs, 0, 1)

simulate_until_playoffs(st, logs) ==
    IF ~is_enabled(st.playoffs_config)
    THEN Raise(st, "Enable playoffs before simulating to their start.")
    ELSE IF PlayoffsStarted(st) THEN Return(st)
    ELSE UntilPlayoffsLoop(st, logs, 0,
                           IF Len(st.calendar) * 3 > 1 THEN Len(st.calendar) * 3 ELSE 1)

\* validate_playoff_config as from_dict and reset use it: a rejected
\* configuration becomes the disabled one
RevalidatedConfig(team_count, weeks, config) ==
    With(validate_playoff_config(team_count, weeks, config), LAMBDA checked :
        IF checked.ok THEN checked.config ELSE DisabledConfig)

reset_league_state(st, ordered_ids) ==
    With(BaseWeeks(st.calendar, st.team_names), LAMBDA weeks :
        [st EXCEPT
           !.current_index = 0,
           !.history = <<>>,
           !.awaiting_simulation = TRUE,
           !.weeks = weeks,
           !.weekly_results = BaseWeeklyResults(st.calendar, st.team_names),
           !.playoffs_config = RevalidatedConfig(st.team_count, weeks, st.playoffs_config),
           !.phase = "regular",
           !.playoffs = NoPlayoffs,
           !.rosters = IF st.user_team_name # NoTeam
                       THEN EmptyRosters(st.team_names)
                       ELSE _auto_draft_teams(ordered_ids, st.team_names, st.roster_size,
                                              EmptyRosters(st.team_names)),
           !.draft_state = IF st.user_team_name # NoTeam
                           THEN _initialize_draft_state(ordered_ids, st.roster_size, st.user_team_name)
                           ELSE NoDraft])

(***************************************************************************)
(* Persistence: LeagueState.to_dict written as JSON, then from_dict        *)
(***************************************************************************)
\* the history replay of from_dict: records in date order rebuild the totals
RECURSIVE ReplayHistory(_, _)
ReplayHistory(st, ordered_history) ==
    IF ordered_history = <<>> THEN st
    ELSE LET record     == Head(ordered_history)
             week_index == _find_week_for_date(st.weeks, record.date)
         IN  ReplayHistory(
                IF week_index # 0 /\ record.team_results # <<>>
                THEN _update_weekly_totals(st, week_index, record.team_results, record.date)
                ELSE st,
                Tail(ordered_history))

\* from_dict(json(to_dict(st))); has_awaiting tells whether the stored
\* document carries the awaiting_simulation key
from_dict(st, has_awaiting) ==
    With(BaseWeeks(st.calendar, st.team_names), LAMBDA weeks :
        LET awaiting == IF has_awaiting THEN st.awaiting_simulation ELSE TRUE
            base     == [st EXCEPT
                           !.awaiting_simulation = IF current_date(st) = NoDate THEN FALSE ELSE awaiting,
                           !.weeks = weeks,
                           !.weekly_results = BaseWeeklyResults(st.calendar, st.team_names),
                           !.playoffs_config = RevalidatedConfig(st.team_count, weeks, st.playoffs_config),
                           !.playoffs = IF st.playoffs.exists
                                        THEN [st.playoffs EXCEPT !.int_keys = FALSE]
                                        ELSE NoPlayoffs]
            ordered  == Undecorate(SortedByKey(
                            [i \in DOMAIN st.history |-> [key |-> <<st.history[i].date>>, val |-> st.history[i]]]))
        IN  ReplayHistory(base, ordered))

(***************************************************************************)
(* The leagues explored                                                    *)
(*   calendar: sorted distinct game dates (season_dates); day 6 is the     *)
(*   first Sunday.  ordered_ids: the player ids by fantasy points,         *)
(*   best first.                                                           *)
(***************************************************************************)
PlayoffsOff == DisabledConfig

\* four teams, every playoff week ends on a game date
League4 ==
    [team_names |-> <<1, 2, 3, 4>>, user_team_name |-> NoTeam, roster_size |-> 1,
     ordered_ids |-> <<11, 12, 13, 14, 15>>,
     calendar |-> <<6, 13, 20, 27>>,
     raw_playoffs |-> [enabled |-> TRUE, teams |-> 4, week_indices |-> <<3, 4>>,
                       reseed |-> FALSE, consolation |-> FALSE]]

\* four teams, no game on the Sunday that ends the first playoff week
League4NoSunday ==
    [team_names |-> <<2, 1, 4, 3>>, user_team_name |-> NoTeam, roster_size |-> 1,
     ordered_ids |-> <<11, 12, 13, 14, 15>>,
     calendar |-> <<1, 13>>,
     raw_playoffs |-> [enabled |-> TRUE, teams |-> 4, week_indices |-> <<2, 1>>,
                       reseed |-> FALSE, consolation |-> FALSE]]

\* six teams, the playoffs fill the three weeks of the season
League6 ==
    [team_names |-> <<1, 2, 3, 4, 5, 6>>, user_team_name |-> NoTeam, roster_size |-> 1,
     ordered_ids |-> <<11, 12, 13, 14, 15, 16>>,
     calendar |-> <<6, 13, 20>>,
     raw_playoffs |-> [enabled |-> TRUE, teams |-> 6, week_indices |-> <<1, 2, 3>>,
                       reseed |-> FALSE, consolation |-> FALSE]]

League6Reseed == [League6 EXCEPT !.raw_playoffs.reseed = TRUE]

\* two teams, one drafted by the user, no playoffs
LeagueDraft ==
    [team_names |-> <<1, 2>>, user_team_name |-> 1, roster_size |-> 2,
     ordered_ids |-> <<11, 12, 13, 14, 15>>,
     calendar |-> <<5, 6, 7>>,
     raw_playoffs |-> PlayoffsOff]

\* four teams, the two playoff weeks are the whole season, each one Sunday
League4Short ==
    [team_names |-> <<1, 2, 3, 4>>, user_team_name |-> NoTeam, roster_size |-> 1,
     ordered_ids |-> <<11, 12, 13, 14, 15>>,
     calendar |-> <<6, 13>>,
     raw_playoffs |-> [enabled |-> TRUE, teams |-> 4, week_indices |-> <<1, 2>>,
                       reseed |-> FALSE, consolation |-> FALSE]]

PlayoffLeagues == {League4Short, League4NoSunday}

Leagues == PlayoffLeagues \cup {LeagueDraft}

SeasonLeagues == {League4}

SixTeamLeagues == {League6, League6Reseed}

\* six and eight teams of which only the two seeded last have a player, so
\* that the upsets of the first round are theirs
League6Upsets ==
    [League6 EXCEPT !.team_names = <<6, 5, 1, 2, 3, 4>>, !.ordered_ids = <<11, 12>>]

League8Upsets ==
    [team_names |-> <<8, 7, 1, 2, 3, 4, 5, 6>>, user_team_name |-> NoTeam, roster_size |-> 1,
     ordered_ids |-> <<11, 12>>,
     calendar |-> <<6, 13, 20>>,
     raw_playoffs |-> [enabled |-> TRUE, teams |-> 8, week_indices |-> <<1, 2, 3>>,
                       reseed |-> FALSE, consolation |-> FALSE]]

\* two teams of two players, one drafted by the user from three ranked
\* players, a single game date
LeagueRoster ==
    [team_names |-> <<1, 2>>, user_team_name |-> 1, roster_size |-> 2,
     ordered_ids |-> <<11, 12, 13>>,
     calendar |-> <<6>>,
     raw_playoffs |-> PlayoffsOff]

\* two teams without playoffs meeting in each of four weeks
LeagueLong ==
    [team_names |-> <<2, 1>>, user_team_name |-> NoTeam, roster_size |-> 1,
     ordered_ids |-> <<11, 12>>,
     calendar |-> <<6, 13, 20, 27>>,
     raw_playoffs |-> PlayoffsOff]

\* four teams, one regular week, then the playoffs in weeks 2 and 3
League4OneRegularWeek ==
    [team_names |-> <<1, 2, 3, 4>>, user_team_name |-> NoTeam, roster_size |-> 1,
     ordered_ids |-> <<11, 12, 13, 14, 15>>,
     calendar |-> <<6, 13, 20>>,
     raw_playoffs |-> [enabled |-> TRUE, teams |-> 4, week_indices |-> <<2, 3>>,
                       reseed |-> FALSE, consolation |-> FALSE]]

BracketLeagues == {League4Short, League6Upsets, League8Upsets}

\* the latest week a requested configuration names
MaxWeekIndex == 4

\* the week lists a request may carry: one, two or three weeks
WeekLists ==
    {<<a>> : a \in 1..MaxWeekIndex}
    \cup {<<a, b>> : a, b \in 1..MaxWeekIndex}
    \cup {<<a, b, c>> : a, b, c \in 1..MaxWeekIndex}

\* the playoff configurations a request may carry: the team count missing (0),
\* unsupported (5) or supported, with any week list
RawConfigs ==
    {DisabledConfig}
    \cup {[enabled |-> TRUE, teams |-> teams, week_indices |-> week_indices,
           reseed |-> FALSE, consolation |-> FALSE] :
              teams \in {0, 4, 5, 6, 8}, week_indices \in WeekLists}

\* the leagues a creation request may ask for: four or six teams over a season
\* of three weeks, with any of the configurations
NewLeagues ==
    {[team_names |-> team_names, user_team_name |-> NoTeam, roster_size |-> 1,
      ordered_ids |-> <<11, 12>>, calendar |-> <<6, 13, 20>>, raw_playoffs |-> raw_config] :
         team_names \in {<<4, 3, 1, 2>>, <<6, 5, 1, 2, 3, 4>>}, raw_config \in RawConfigs}


\* the fantasy totals of one date, by team: at most one team scores
DayScores(team_names) ==
    {[t \in SeqToSet(team_names) |-> IF t = hot THEN v ELSE 0] :
        hot \in SeqToSet(team_names) \cup {NoTeam}, v \in 1..MaxScore}

(***************************************************************************)
(* Scoring of statistic rows                                               *)
(***************************************************************************)
\* a DataFrame: its columns and its rows, each row a value per column
Frame(columns, rows) == [columns |-> columns, rows |-> rows]

\* the rows of two frames one after the other
ConcatFrames(df, other) == Frame(df.columns \cup other.columns, df.rows \o other.rows)

\* the statistics of a row added up without their weights
RECURSIVE WeightedSum_Unweighted(_, _, _)
WeightedSum_Unweighted(row, scoring_weights, stats_left) ==
    IF stats_left = {} THEN 0
    ELSE LET stat == CHOOSE k \in stats_left : TRUE
         IN  row[stat] + WeightedSum_Unweighted(row, scoring_weights, stats_left \ {stat})

\* sum(fantasy[stat] * weight for stat, weight in scoring_weights.items()) in one row
RECURSIVE WeightedSum(_, _, _)
WeightedSum(row, scoring_weights, stats_left) ==
    IF stats_left = {} THEN 0
    ELSE LET stat == CHOOSE k \in stats_left : TRUE
         IN  row[stat] * scoring_weights[stat]
                + WeightedSum(row, scoring_weights, stats_left \ {stat})

\* the weight keys that are no column of the frame
MissingColumns(df, scoring_weights) ==
    {stat \in DOMAIN scoring_weights : stat \notin df.columns}

\* compute_fantasy_points: the frame returned is a copy with the derived column
compute_fantasy_points(df, scoring_weights) ==
    IF MissingColumns(df, scoring_weights) # {}
    THEN [ok |-> FALSE, frame |-> df,
          error |-> "The cached stats are missing required columns for the scoring profile"]
    ELSE [ok |-> TRUE, error |-> "",
          frame |-> Frame(df.columns \cup {"FANTASY_POINTS"},
                          [i \in DOMAIN df.rows |->
                              [c \in df.columns \cup {"FANTASY_POINTS"} |->
                                  IF c = "FANTASY_POINTS"
                                  THEN WeightedSum(df.rows[i], scoring_weights, DOMAIN scoring_weights)
                                  ELSE df.rows[i][c]]])]

\* _safe_sum(df.get(column)): a column the frame lacks sums to 0.0
_safe_sum(df, column) ==
    IF column \notin df.columns THEN 0
    ELSE SumSeq([i \in DOMAIN df.rows |-> df.rows[i][column]])

RECURSIVE Gcd(_, _)
Gcd(a, b) == IF b = 0 THEN a ELSE Gcd(b, a % b)

\* numerator / denominator if denominator else 0.0, as a fraction in lowest terms
RatioValue(numerator, denominator) ==
    IF denominator = 0 THEN [n |-> 0, d |-> 1]
    ELSE [n |-> numerator \div Gcd(numerator, denominator),
          d |-> denominator \div Gcd(numerator, denominator)]

compute_category_totals(df, categories) ==
    [key \in DOMAIN categories |->
        IF categories[key].ratio
        THEN With(_safe_sum(df, categories[key].numerator), LAMBDA numerator :
             With(_safe_sum(df, categories[key].denominator), LAMBDA denominator :
                [value |-> RatioValue(numerator, denominator), kind |-> "ratio",
                 numerator |-> numerator, denominator |-> denominator]))
        ELSE [value |-> _safe_sum(df, categories[key].stat), kind |-> "total"]]

\* the denominators not added up: the merged record keeps the incoming one
MergedDenominator_Incoming(record, incoming) == incoming.denominator

\* record.get("denominator", 0.0) + incoming.denominator
MergedDenominator(record, incoming) ==
    (IF "denominator" \in DOMAIN record THEN record.denominator ELSE 0) + incoming.denominator

\* one record of merge_category_totals; record is the base record, or the
\* default one (value 0.0, no numerator, no denominator) the key is given
MergeRecord(record, incoming, definition) ==
    IF definition.ratio
    THEN With((IF "numerator" \in DOMAIN record THEN record.numerator ELSE 0) + incoming.numerator,
              LAMBDA numerator :
         With(MergedDenominator(record, incoming), LAMBDA denominator :
            [value |-> RatioValue(numerator, denominator), kind |-> record.kind,
             numerator |-> numerator, denominator |-> denominator]))
    ELSE [record EXCEPT !.value = @ + incoming.value]

merge_category_totals(base, addition, categories) ==
    [key \in (DOMAIN base) \cup ((DOMAIN categories) \cap (DOMAIN addition)) |->
        IF key \in DOMAIN categories /\ key \in DOMAIN addition
        THEN MergeRecord(IF key \in DOMAIN base THEN base[key]
                         ELSE [value |-> 0, kind |-> categories[key].kind],
                         addition[key], categories[key])
        ELSE base[key]]

\* the statistics of the rows
StatColumns == {"FGM", "FGA"}

\* the frames of at most two rows over some of the columns
Frames ==
    UNION {{Frame(columns, rows) :
               rows \in {<<>>} \cup {<<a>> : a \in [columns -> 0..MaxStat]}
                               \cup {<<a, b>> : a, b \in [columns -> 0..MaxStat]}} :
           columns \in SUBSET StatColumns}

\* the scoring profiles: a weight for some of the statistics
ScoringWeights == UNION {[keys -> {-1, 0, 2}] : keys \in SUBSET StatColumns}

\* a ratio category and a counting category
Categories ==
    [FG_PCT |-> [ratio |-> TRUE, kind |-> "ratio", stat |-> "", numerator |-> "FGM", denominator |-> "FGA"],
     FGM    |-> [ratio |-> FALSE, kind |-> "total", stat |-> "FGM", numerator |-> "", denominator |-> ""]]

\* nothing is being scored
NoStats ==
    [job |-> "none", frame |-> Frame({}, <<>>), other |-> Frame({}, <<>>),
     weights |-> EmptyDict, fantasy |-> <<>>, direct |-> <<>>, merged |-> <<>>]

\* what there is to score: a frame under a scoring profile, or two disjoint
\* sets of rows of the same columns under the categories
ScoringJobs ==
    {[NoStats EXCEPT !.job = "fantasy", !.frame = df, !.weights = scoring_weights] :
        df \in Frames, scoring_weights \in ScoringWeights}
    \cup {[NoStats EXCEPT !.job = "categories", !.frame = pair[1], !.other = pair[2]] :
             pair \in {p \in Frames \X Frames : p[1].columns = p[2].columns}}

(***************************************************************************)
(* State                                                                   *)
(***************************************************************************)
VARIABLES
    league,               \* the league explored: names, calendar, player order
    current_index,        \* cursor into the calendar (0-based)
    awaiting_simulation,  \* today's games still await simulation
    rosters,              \* team name -> list of player ids
    weeks,                \* week descriptors with their matchups
    weekly_results,       \* matchup id -> accumulated totals
    history,              \* day records
    draft_state,          \* NoDraft or the draft state
    phase,                \* "regular", "playoffs", "finished"
    playoffs_config,      \* validated playoff configuration
    playoffs,             \* NoPlayoffs or the bracket
    outcome,              \* "ok", or the message of the error the last call raised
    stats,                \* the statistic rows being scored and what was computed from them
    requests              \* the API requests that loaded the league and have not ended yet

\* the league, its state and the outcome of the last call on it
league_vars == <<league, current_index, awaiting_simulation, rosters, weeks, weekly_results,
                 history, draft_state, phase, playoffs_config, playoffs, outcome>>

vars == <<league_vars, stats, requests>>

\* the LeagueState object
State ==
    [team_names          |-> league.team_names,
     team_count          |-> Len(league.team_names),
     user_team_name      |-> league.user_team_name,
     roster_size         |-> league.roster_size,
     calendar            |-> league.calendar,
     current_index       |-> current_index,
     awaiting_simulation |-> awaiting_simulation,
     rosters             |-> rosters,
     weeks               |-> weeks,
     weekly_results      |-> weekly_results,
     history             |-> history,
     draft_state         |-> draft_state,
     phase               |-> phase,
     playoffs_config     |-> playoffs_config,
     playoffs            |-> playoffs]

\* _build_initial_state
InitialState(lg) ==
    With(BaseWeeks(lg.calendar, lg.team_names), LAMBDA built_weeks :
        [team_names          |-> lg.team_names,
         team_count          |-> Len(lg.team_names),
         user_team_name      |-> lg.user_team_name,
         roster_size         |-> lg.roster_size,
         calendar            |-> lg.calendar,
         current_index       |-> 0,
         awaiting_simulation |-> TRUE,
         rosters             |-> IF lg.user_team_name # NoTeam
                                 THEN EmptyRosters(lg.team_names)
                                 ELSE _auto_draft_teams(lg.ordered_ids, lg.team_names, lg.roster_size,
                                                        EmptyRosters(lg.team_names)),
         weeks               |-> built_weeks,
         weekly_results      |-> BaseWeeklyResults(lg.calendar, lg.team_names),
         history             |-> <<>>,
         draft_state         |-> IF lg.user_team_name # NoTeam
                                 THEN _initialize_draft_state(lg.ordered_ids, lg.roster_size, lg.user_team_name)
                                 ELSE NoDraft,
         phase               |-> "regular",
         playoffs_config     |-> validate_playoff_config(Len(lg.team_names), built_weeks, lg.raw_playoffs).config,
         playoffs            |-> NoPlayoffs])

\* _build_initial_state: the ValueError of the validation leaves the caller
\* without a league
_build_initial_state(lg) ==
    With(validate_playoff_config(Len(lg.team_names), BaseWeeks(lg.calendar, lg.team_names), lg.raw_playoffs),
         LAMBDA checked :
            IF checked.ok THEN Return(InitialState(lg))
            ELSE [ok |-> FALSE, error |-> checked.error])

\* the variables take the fields of st; result records how the call ended
Store(st, result) ==
    /\ current_index' = st.current_index
    /\ awaiting_simulation' = st.awaiting_simulation
    /\ rosters' = st.rosters
    /\ weeks' = st.weeks
    /\ weekly_results' = st.weekly_results
    /\ history' = st.history
    /\ draft_state' = st.draft_state
    /\ phase' = st.phase
    /\ playoffs_config' = st.playoffs_config
    /\ playoffs' = st.playoffs
    /\ outcome' = result

\* an operation on the league as it is stored, saved when it returns
Commit(st, result) == Store(st, result) /\ UNCHANGED <<league, stats, requests>>

\* no request is under way
NoRequests ==
    [pending |-> EmptyDict,
     last    |-> [kind |-> "none", op |-> "", cursor |-> 0, dates |-> {}]]

\* "ok", or the message of the ValueError the call raised
Result(r) == IF r.ok THEN "ok" ELSE r.error

InitLeague(leagues) ==
    \E lg \in leagues :
        /\ With(lg, LAMBDA l : validate_playoff_config(Len(l.team_names),
                                                       BaseWeeks(l.calendar, l.team_names),
                                                       l.raw_playoffs).ok)
        /\ \E st \in {With(lg, LAMBDA l : InitialState(l))} :
              /\ league = lg
              /\ current_index = st.current_index
              /\ awaiting_simulation = st.awaiting_simulation
              /\ rosters = st.rosters
              /\ weeks = st.weeks
              /\ weekly_results = st.weekly_results
              /\ history = st.history
              /\ draft_state = st.draft_state
              /\ phase = st.phase
              /\ playoffs_config = st.playoffs_config
              /\ playoffs = st.playoffs
              /\ outcome = "ok"

\* a league of the given ones after its construction; no statistics are being scored
InitIn(leagues) == InitLeague(leagues) /\ stats = NoStats /\ requests = NoRequests

Init == InitIn(Leagues)

(***************************************************************************)
(* Operations                                                              *)
(***************************************************************************)
\* the game logs matter only to a call that passes the guards
SimulateDay ==
    \E scores \in IF With(State, LAMBDA st : CanSimulate(st)) THEN DayScores(league.team_names) ELSE {EmptyDict} :
        \E r \in {With(State, LAMBDA st : simulate_day(st, scores))} : Commit(r.st, Result(r))

AdvanceLeagueDay ==
    \E r \in {With(State, LAMBDA st : advance_league_day(st))} : Commit(r.st, Result(r))

\* the dates whose game logs simulate_until_playoffs reads from State
UntilDates(st) ==
    IF ~is_enabled(st.playoffs_config) \/ PlayoffsStarted(st) \/ draft_is_active(st) THEN {}
    ELSE LET first == IF st.awaiting_simulation THEN st.current_index + 1 ELSE st.current_index + 2
             start == MinOf(st.playoffs_config.week_indices)
         IN  {st.calendar[i] : i \in {k \in first..Len(st.calendar) :
                 \A j \in first..k : _find_week_for_date(st.weeks, st.calendar[j]) # start}}

SimulateUntilPlayoffs ==
    \E logs \in [With(State, LAMBDA st : UntilDates(st)) -> DayScores(league.team_names)] :
        \E r \in {With(State, LAMBDA st : simulate_until_playoffs(st, logs))} : Commit(r.st, Result(r))

ResetLeagueState ==
    \E r \in {With(State, LAMBDA st : reset_league_state(st, league.ordered_ids))} : Commit(r, "ok")

\* without an active draft every player id is refused alike
DraftPickPlayer ==
    \E pid \in IF draft_state.exists /\ draft_state.status # "completed" THEN SeqToSet(league.ordered_ids) ELSE {league.ordered_ids[1]} :
        \E r \in {With(State, LAMBDA st : draft_pick_player(st, pid))} : Commit(r.st, Result(r))

\* every outcome of draft_autodraft_rest: each pick is drawn from the pool
RECURSIVE AutodraftRestOutcomes(_)
AutodraftRestOutcomes(st) ==
    IF draft_remaining_slots(st) > 0
    THEN IF AutodraftPool(st) = <<>> THEN {Raise(st, "No players available to draft.")}
         ELSE UNION {AutodraftRestOutcomes(draft_pick_player(st, pid).st) :
                        pid \in SeqToSet(AutodraftPool(st))}
    ELSE {finalize_draft(st)}

DraftAutodraftRest ==
    \E r \in With(State, LAMBDA st : AutodraftRestOutcomes(st)) : Commit(r.st, Result(r))

FinalizeDraft ==
    \E r \in {With(State, LAMBDA st : finalize_draft(st))} : Commit(r.st, Result(r))

\* the league is saved and loaded again, as between two requests
LoadLeagueState ==
    \E r \in {With(State, LAMBDA st : from_dict(st, TRUE))} : Commit(r, "ok")

\* a stored league written without the awaiting_simulation key is loaded
LoadLegacyLeagueState ==
    \E r \in {With(State, LAMBDA st : from_dict(st, FALSE))} : Commit(r, "ok")

\* the room of the roster not checked
add_player_to_roster_NoSpaceCheck(stored, pid) ==
    With(from_dict(stored, TRUE), LAMBDA st :
        IF st.user_team_name = NoTeam
        THEN Raise(st, "This league does not have a user team configured.")
        ELSE IF pid \in RosterIds(st.rosters) THEN Raise(st, "Player is already on a team.")
        ELSE Return([st EXCEPT !.rosters[st.user_team_name] = Append(@, pid)]))

\* add_player_to_roster: the endpoint reads the stored league, then checks
\* that the player is free and that the user's roster has room
add_player_to_roster(stored, pid) ==
    With(from_dict(stored, TRUE), LAMBDA st :
        IF st.user_team_name = NoTeam
        THEN Raise(st, "This league does not have a user team configured.")
        ELSE IF pid \in RosterIds(st.rosters) THEN Raise(st, "Player is already on a team.")
        ELSE IF Len(st.rosters[st.user_team_name]) >= st.roster_size THEN Raise(st, "Your roster is full.")
        ELSE Return([st EXCEPT !.rosters[st.user_team_name] = Append(@, pid)]))

\* remove_player_from_roster, called by the endpoint on the stored league
remove_player_from_roster(stored, pid) ==
    With(from_dict(stored, TRUE), LAMBDA st :
        IF st.user_team_name = NoTeam
        THEN Raise(st, "This league does not have a user team configured.")
        ELSE IF pid \notin SeqToSet(st.rosters[st.user_team_name])
        THEN Raise(st, "Player is not on your roster.")
        ELSE Return([st EXCEPT !.rosters[st.user_team_name] =
                                   FilterSeq(@, LAMBDA item : item # pid)]))

\* a player id that is not in the draft order
UnrankedPlayer == 99

\* the player ids a roster request may name
RequestedPlayers == SeqToSet(league.ordered_ids) \cup {UnrankedPlayer}

AddPlayerToRoster ==
    \E pid \in RequestedPlayers :
        \E r \in {With(State, LAMBDA st : add_player_to_roster(st, pid))} : Commit(r.st, Result(r))

DropPlayerFromRoster ==
    \E pid \in RequestedPlayers :
        \E r \in {With(State, LAMBDA st : remove_player_from_roster(st, pid))} : Commit(r.st, Result(r))

\* build_playoff_preview: the payload returned, or the ValueError raised by
\* _prepare_playoff_preview_components
build_playoff_preview(st) ==
    IF ~is_enabled(st.playoffs_config)
    THEN [ok |-> TRUE, error |-> "",
          payload |-> [preview |-> TRUE, enabled |-> FALSE,
                       message |-> "Playoffs are currently disabled.", seeds |-> <<>>]]
    ELSE IF Len(st.team_names) < st.playoffs_config.teams
    THEN [ok |-> FALSE, error |-> "Not enough teams available to seed the playoffs."]
    ELSE [ok |-> TRUE, error |-> "",
          payload |-> [preview |-> TRUE, enabled |-> TRUE, message |-> "", seeds |-> PlayoffSeeds(st)]]

\* the preview is asked for; the league is left as it is
BuildPlayoffPreview ==
    \E r \in {With(State, LAMBDA st : build_playoff_preview(st))} :
        Commit(State, IF r.ok THEN "ok" ELSE r.error)

\* a stored configuration written for a season of four weeks
StaleConfig ==
    [enabled |-> TRUE, teams |-> 4, week_indices |-> <<3, 4>>, reseed |-> FALSE, consolation |-> FALSE]

\* the stored league is read back from a file whose playoff configuration is
\* the stale one
LoadStoredLeagueState(stored_config) ==
    \E r \in {With([State EXCEPT !.playoffs_config = stored_config], LAMBDA st : from_dict(st, TRUE))} :
        Commit(r, "ok")

\* no league is stored yet
NoLeague ==
    [current_index |-> 0, awaiting_simulation |-> FALSE, rosters |-> <<>>, weeks |-> <<>>,
     weekly_results |-> EmptyDict, history |-> <<>>, draft_state |-> NoDraft, phase |-> "regular",
     playoffs_config |-> DisabledConfig, playoffs |-> NoPlayoffs]

LeagueExists == weeks # <<>>

\* the league asked for is created; a request that is refused leaves what
\* is stored as it was
CreateLeague ==
    \E r \in {With(league, LAMBDA l : _build_initial_state(l))} :
        IF r.ok THEN Commit(r.st, "ok") ELSE Commit(State, r.error)

Next ==
    \/ SimulateDay
    \/ AdvanceLeagueDay
    \/ SimulateUntilPlayoffs
    \/ ResetLeagueState
    \/ DraftPickPlayer
    \/ DraftAutodraftRest
    \/ FinalizeDraft
    \/ LoadLeagueState

Spec == Init /\ [][Next]_vars

\* a season with two regular weeks before the playoffs
SpecSeason == InitIn(SeasonLeagues) /\ [][Next]_vars

\* the six-team brackets
SpecSixTeams == InitIn(SixTeamLeagues) /\ [][Next]_vars

\* the brackets of four, six and eight teams without reseeding
SpecBrackets == InitIn(BracketLeagues) /\ [][Next]_vars

\* a league is asked for with some configuration; once created its first
\* day is simulated and it is stored, loaded and reset
InitRequest ==
    /\ league \in NewLeagues
    /\ current_index = NoLeague.current_index
    /\ awaiting_simulation = NoLeague.awaiting_simulation
    /\ rosters = NoLeague.rosters
    /\ weeks = NoLeague.weeks
    /\ weekly_results = NoLeague.weekly_results
    /\ history = NoLeague.history
    /\ draft_state = NoLeague.draft_state
    /\ phase = NoLeague.phase
    /\ playoffs_config = NoLeague.playoffs_config
    /\ playoffs = NoLeague.playoffs
    /\ outcome = ""
    /\ stats = NoStats
    /\ requests = NoRequests

NextConfig ==
    \/ CreateLeague
    \/ LeagueExists /\ SimulateDay
    \/ LeagueExists /\ ResetLeagueState
    \/ LeagueExists /\ LoadLeagueState
    \/ LeagueExists /\ LoadStoredLeagueState(StaleConfig)
    \/ LeagueExists /\ BuildPlayoffPreview

SpecConfig == InitRequest /\ [][NextConfig]_vars

\* a league drafted by its user: the draft, the roster requests, reset and load
NextDraft ==
    \/ DraftPickPlayer
    \/ DraftAutodraftRest
    \/ FinalizeDraft
    \/ AddPlayerToRoster
    \/ DropPlayerFromRoster
    \/ ResetLeagueState
    \/ LoadLeagueState

SpecDraft == InitIn({LeagueRoster}) /\ [][NextDraft]_vars

\* a regular season of four weeks
SpecStandings == InitIn({LeagueLong}) /\ [][Next]_vars

\* one regular week decides the seeds of the bracket
SpecSeeding == InitIn({League4OneRegularWeek}) /\ [][Next]_vars

\* leagues of two and three teams whose rosters are all auto-drafted, with
\* every roster size and every length of the candidate list
SpecAutoDraft ==
    InitIn({[team_names |-> names, user_team_name |-> NoTeam, roster_size |-> size,
             ordered_ids |-> [i \in 1..n |-> 10 + i], calendar |-> <<6>>,
             raw_playoffs |-> PlayoffsOff] :
                names \in {<<2, 1>>, <<1, 2, 3>>}, size \in 1..MaxRosterSize, n \in 1..MaxCandidates})
    /\ [][Next]_vars

\* the fantasy points of the frame are computed; the frame itself is left as it was
ComputeFantasyPoints ==
    /\ stats.job = "fantasy"
    /\ stats.fantasy = <<>>
    /\ stats' = [stats EXCEPT !.fantasy = <<compute_fantasy_points(stats.frame, stats.weights)>>]
    /\ UNCHANGED <<league_vars, requests>>

\* the category totals of all the rows at once
ComputeCategoryTotals ==
    /\ stats.job = "categories"
    /\ stats.direct = <<>>
    /\ stats' = [stats EXCEPT !.direct =
                    <<compute_category_totals(ConcatFrames(stats.frame, stats.other), Categories)>>]
    /\ UNCHANGED <<league_vars, requests>>

\* the category totals of the two sets of rows, merged one after the other
MergeCategoryTotals ==
    /\ stats.job = "categories"
    /\ stats.merged = <<>>
    /\ stats' = [stats EXCEPT !.merged =
                    <<merge_category_totals(
                          merge_category_totals(EmptyDict,
                              compute_category_totals(stats.frame, Categories), Categories),
                          compute_category_totals(stats.other, Categories), Categories)>>]
    /\ UNCHANGED <<league_vars, requests>>

NextScoring == ComputeFantasyPoints \/ ComputeCategoryTotals \/ MergeCategoryTotals

\* statistic rows are scored: fantasy points and category totals
InitScoring == InitLeague({LeagueRoster}) /\ stats \in ScoringJobs /\ requests = NoRequests

SpecScoring == InitScoring /\ [][NextScoring]_vars

\* the operations a request of the API runs on the league it loaded
RequestOps == {"simulate", "advance", "reset"}

\* the endpoint's operation on the loaded league; scores are the totals of the
\* date when the operation is simulate_day
RunRequest(request, scores, ordered_ids) ==
    IF request.op = "simulate" THEN simulate_day(request.st, scores)
    ELSE IF request.op = "advance" THEN advance_league_day(request.st)
    ELSE Return(reset_league_state(request.st, ordered_ids))

\* the request works on what the store holds now: no other request saved
\* between its load and its save
IsSequential(request, st) == request.st = from_dict(st, TRUE)

\* the two clients whose requests may overlap
Clients == {"a", "b"}

\* the totals of the date a request simulates: nobody scores, or the first
\* team scores one point
RequestScores(team_names) ==
    {[t \in SeqToSet(team_names) |-> 0],
     [t \in SeqToSet(team_names) |-> IF t = team_names[1] THEN 1 ELSE 0]}

\* an endpoint is entered: load_league_state reads the stored league
BeginRequest ==
    /\ \E client \in Clients \ DOMAIN requests.pending :
          \E op \in RequestOps :
              requests' = [requests EXCEPT !.pending =
                              DictPut(@, client, [op |-> op,
                                                  st |-> With(State, LAMBDA st : from_dict(st, TRUE))])]
    /\ UNCHANGED <<league_vars, stats>>

\* a request runs its operation on the league it loaded; the operation saves
\* the whole league when it returns and saves nothing when it raises. last
\* keeps what the store held just before
EndRequest ==
    \E client \in DOMAIN requests.pending :
        With(requests.pending[client], LAMBDA request :
            \E scores \in IF request.op = "simulate" /\ CanSimulate(request.st)
                           THEN RequestScores(league.team_names) ELSE {EmptyDict} :
                \E r \in {RunRequest(request, scores, league.ordered_ids)} :
                    /\ IF r.ok THEN Store(r.st, "ok")
                               ELSE With(State, LAMBDA st : Store(st, r.error))
                    /\ requests' =
                          [pending |-> DictPop(requests.pending, client),
                           last    |-> [kind   |-> IF With(State, LAMBDA st : IsSequential(request, st))
                                                   THEN "sequential" ELSE "overlapped",
                                        op     |-> request.op,
                                        cursor |-> current_index,
                                        dates  |-> {history[k].date : k \in DOMAIN history}]]
                    /\ UNCHANGED <<league, stats>>)

NextRequests == BeginRequest \/ EndRequest

\* two teams without playoffs and two game dates
LeagueTwoDays ==
    [team_names |-> <<2, 1>>, user_team_name |-> NoTeam, roster_size |-> 1,
     ordered_ids |-> <<11, 12>>,
     calendar |-> <<6, 13>>,
     raw_playoffs |-> PlayoffsOff]

\* the requests of the API on one stored league, overlapping or not
SpecRequests == InitIn({LeagueTwoDays}) /\ [][NextRequests]_vars


NextLegacy == Next \/ LoadLegacyLeagueState

\* the playoff leagues, whose stored document may lack the awaiting_simulation key
SpecLegacy == InitIn(PlayoffLeagues) /\ [][NextLegacy]_vars

(***************************************************************************)
(* Properties                                                              *)
(***************************************************************************)
\* every field of the league state (outcome only reports how a call ended)
LeagueFields ==
    <<current_index, awaiting_simulation, rosters, weeks, weekly_results, history,
      draft_state, phase, playoffs_config, playoffs>>

HasCurrentDate == 0 <= current_index /\ current_index < Len(league.calendar)

DraftActive == draft_state.exists /\ draft_state.status # "completed"

\* C1: simulate_day raises and leaves cursor, awaiting flag, history, weekly
\* results, phase and bracket unchanged whenever, on entry, the draft state
\* exists with a status other than completed, or the phase is finished, or
\* there is no current date, or awaiting_simulation is false.
C1_SimulateDayRefuses ==
    [][((DraftActive \/ phase = "finished" \/ ~HasCurrentDate \/ ~awaiting_simulation) /\ SimulateDay)
          => (/\ outcome' # "ok"
              /\ UNCHANGED <<current_index, awaiting_simulation, history, weekly_results, phase, playoffs>>)]_vars

\* a date was simulated and a second simulate_day on it was refused
C1_Witness ==
    /\ outcome = "Today's games have already been simulated."
    /\ ~awaiting_simulation
    /\ history # <<>>

\* the conditions under which advance_league_day is said to fail
C2_Refused == DraftActive \/ phase = "finished" \/ (awaiting_simulation /\ HasCurrentDate)

\* C2 as stated: advance_league_day fails without changing state when the
\* draft is active, the phase is finished, or today's games await simulation;
\* otherwise it moves the cursor forward by exactly one date and sets
\* awaiting_simulation, except that from the last calendar date the cursor
\* moves past the end and awaiting_simulation becomes false.
C2_AdvanceAsStated ==
    [][AdvanceLeagueDay =>
          IF C2_Refused
          THEN outcome' # "ok" /\ UNCHANGED LeagueFields
          ELSE /\ outcome' = "ok"
               /\ current_index' = current_index + 1
               /\ awaiting_simulation' = (current_index + 1 < Len(league.calendar))]_vars

\* C2: advance_league_day fails without changing state when the draft is
\* active, the phase is finished, or today's games await simulation.
\* Otherwise it succeeds: from a date before the last one the cursor moves
\* forward by exactly one date and awaiting_simulation becomes true; from the
\* last date the cursor moves past the end and awaiting_simulation becomes
\* false; with the cursor already past the end the cursor stays where it is
\* and awaiting_simulation is false.
C2_AdvanceLeagueDay ==
    [][AdvanceLeagueDay =>
          IF C2_Refused
          THEN outcome' # "ok" /\ UNCHANGED LeagueFields
          ELSE /\ outcome' = "ok"
               /\ current_index' = IF HasCurrentDate THEN current_index + 1 ELSE current_index
               /\ awaiting_simulation' = (HasCurrentDate /\ current_index + 1 < Len(league.calendar))
               /\ UNCHANGED <<rosters, weeks, weekly_results, history, draft_state, phase,
                              playoffs_config, playoffs>>]_vars

\* the season ran to its end without playoffs and the league was advanced:
\* the cursor is past the end of the calendar
C2_Witness ==
    /\ outcome = "ok"
    /\ current_index = Len(league.calendar)
    /\ ~awaiting_simulation
    /\ phase = "regular"
    /\ Len(history) = Len(league.calendar)

\* C3: apart from a reset, the phase changes only from regular to playoffs
\* and from playoffs to finished: it never returns to an earlier phase and
\* never goes from regular straight to finished.
C3_PhaseOrder ==
    [][\/ phase' = phase
       \/ phase = "regular" /\ phase' = "playoffs"
       \/ phase = "playoffs" /\ phase' = "finished"
       \/ ResetLeagueState]_vars

\* the bracket ran from its first round to the resolved final
C3_Witness ==
    /\ phase = "finished"
    /\ playoffs.exists /\ playoffs.completed
    /\ \A r \in DOMAIN playoffs.rounds : playoffs.rounds[r].status = "completed"

\* the bracket without the way its seeds are keyed in memory
BracketContent(p) == [p EXCEPT !.int_keys = TRUE]

\* C4: phase = finished is absorbing until a reset: every simulate_day and
\* advance_league_day call fails, and the cursor, history, weekly results,
\* bracket and placements do not change.
C4_FinishedAbsorbing ==
    [][(phase = "finished" /\ ~ResetLeagueState) =>
          /\ phase' = "finished"
          /\ (SimulateDay \/ AdvanceLeagueDay) => outcome' # "ok"
          /\ UNCHANGED <<current_index, history, weekly_results>>
          /\ BracketContent(playoffs') = BracketContent(playoffs)]_vars

\* C4 over the steps themselves: the operations on a loaded league change
\* nothing once the phase is finished; load_league_state is left aside
C4_FinishedAbsorbingInMemory ==
    [][(phase = "finished" /\ ~ResetLeagueState /\ ~LoadLeagueState) =>
          /\ phase' = "finished"
          /\ (SimulateDay \/ AdvanceLeagueDay) => outcome' # "ok"
          /\ UNCHANGED <<current_index, history, weekly_results>>
          /\ BracketContent(playoffs') = BracketContent(playoffs)]_vars

\* C5: history holds at most one record per date.
C5_OneRecordPerDate ==
    \A i, j \in DOMAIN history : history[i].date = history[j].date => i = j

\* total of a team in the history records of a week
RECURSIVE HistoryTotal(_, _, _)
HistoryTotal(records, week_index, team) ==
    IF records = <<>> THEN 0
    ELSE (IF Head(records).week_index = week_index
          THEN SumSeq([k \in DOMAIN Head(records).team_results |->
                          IF Head(records).team_results[k].team = team
                          THEN Head(records).team_results[k].total ELSE 0])
          ELSE 0) + HistoryTotal(Tail(records), week_index, team)

\* a date was simulated a second time: its one record no longer accounts for
\* the weekly total of a team
C5_Witness ==
    /\ outcome = "ok"
    /\ ~awaiting_simulation
    /\ \E i \in DOMAIN history :
          /\ history[i].date = league.calendar[current_index + 1]
          /\ \E id \in DOMAIN weekly_results :
                /\ weekly_results[id].week_index = history[i].week_index
                /\ \E team \in DOMAIN weekly_results[id].teams :
                      weekly_results[id].teams[team].total
                          > HistoryTotal(history, history[i].week_index, team)

\* the matchups simulate_day credits in a week: the bracket pairings bound to
\* the week, else the week's own matchups
WeekMatchups(bracket, week_list, week_index) ==
    LET overlay == _get_playoff_matchups_for_week([playoffs |-> bracket], week_index)
    IN  IF overlay # <<>> THEN overlay ELSE week_list[week_index].matchups

RegularSeasonRanking ==
    LET start_week == MinOf(playoffs_config.week_indices)
        played     == {[m EXCEPT !.status = "completed"] :
                          m \in StandingsMatchups(State, IF start_week > 0 THEN start_week - 1 ELSE NoDate)}
        rows       == [i \in DOMAIN league.team_names |-> StandingsRow(league.team_names[i], played)]
    IN  Undecorate(SortedByKey([i \in DOMAIN rows |-> [key |-> StandingsKey(rows[i]), val |-> rows[i]]]))

\* C7: once the bracket is initialised, seed k is the team ranked k in
\* standings that count the win/loss/tie outcome of every matchup of every
\* regular-season week below the first playoff week, the week immediately
\* before it included.
C7_SeedsFollowRegularSeason ==
    playoffs.exists =>
        \A k \in DOMAIN playoffs.seeds : playoffs.seeds[k] = RegularSeasonRanking[k].team

\* the calendar dates inside a week
WeekDates(week) ==
    {league.calendar[i] : i \in {j \in DOMAIN league.calendar :
                                    week.start <= league.calendar[j] /\ league.calendar[j] <= week.end}}

SimulatedDates == {history[i].date : i \in DOMAIN history}

\* the teams in the slots of a round, and those among them placed by seed
SlotTeams(round) ==
    UNION {{round.matchups[m].home_team, round.matchups[m].away_team} : m \in DOMAIN round.matchups}

ByeTeams(round) ==
    {SeedTeam(playoffs.seeds, round.matchups[m].sources.home.seed) :
        m \in {x \in DOMAIN round.matchups : round.matchups[x].sources.home.type = "seed"}}
    \cup {SeedTeam(playoffs.seeds, round.matchups[m].sources.away.seed) :
        m \in {x \in DOMAIN round.matchups : round.matchups[x].sources.away.type = "seed"}}

\* C8: for every playoff round but the last, once every calendar date inside
\* the round's week has been simulated the round is completed, each of its
\* matchups has one winner and one loser which are its two distinct
\* participants, and the slots of the next round hold exactly those winners.
C8_RoundResolvedWithItsWeek ==
    playoffs.exists =>
        \A r \in 1..(Len(playoffs.rounds) - 1) :
            LET round == playoffs.rounds[r]
                dates == WeekDates(weeks[round.week_index])
            IN  (dates # {} /\ dates \subseteq SimulatedDates) =>
                    /\ round.status = "completed"
                    /\ \A m \in DOMAIN round.matchups :
                          /\ round.matchups[m].has_winner
                          /\ round.matchups[m].winner.team # NoTeam
                          /\ round.matchups[m].loser.team # NoTeam
                          /\ round.matchups[m].winner.team # round.matchups[m].loser.team
                          /\ {round.matchups[m].winner.team, round.matchups[m].loser.team}
                                = {round.matchups[m].home_team, round.matchups[m].away_team}
                    /\ SlotTeams(playoffs.rounds[r + 1]) \ ByeTeams(playoffs.rounds[r + 1])
                          = {round.matchups[m].winner.team : m \in DOMAIN round.matchups}

\* C9: phase = finished holds exactly when the final round of the bracket has
\* been resolved (bracket marked completed); the placement list then exists,
\* its first entry is the winner of the final and its second the loser.
C9_FinishedWithResolvedFinal ==
    /\ (phase = "finished") <=> (playoffs.exists /\ playoffs.completed)
    /\ phase = "finished" =>
          LET final == playoffs.rounds[Len(playoffs.rounds)].matchups[1]
          IN  /\ final.has_winner
              /\ playoffs.has_placements
              /\ Len(playoffs.placements) >= 2
              /\ playoffs.placements[1] = final.winner.team
              /\ playoffs.placements[2] = final.loser.team

\* champion, runner-up, then the other eliminated teams, a later round
\* first, teams of one round in their recorded order
PlacementsLatestRoundFirst ==
    LET final     == playoffs.rounds[Len(playoffs.rounds)].matchups[1]
        log       == playoffs.elimination_log
        ordered   == Undecorate(SortedByKey(
                        [i \in DOMAIN log |-> [key |-> <<0 - log[i].round>>, val |-> log[i]]]))
        others    == FilterSeq(LoserTeams(ordered),
                               LAMBDA t : t # final.winner.team /\ t # final.loser.team)
    IN  AddPlacements(<<>>, <<final.winner.team, final.loser.team>> \o others)

\* C10: when the bracket completes the placement list is champion,
\* runner-up, then the remaining eliminated teams by the round in which they
\* lost, latest round first, teams of the same round in their recorded
\* elimination order.
C10_PlacementsLatestRoundFirst ==
    (playoffs.exists /\ playoffs.completed) => playoffs.placements = PlacementsLatestRoundFirst

\* the resolved matchups of the bracket
ResolvedBracketMatches ==
    {playoffs.rounds[r].matchups[m] :
        <<r, m>> \in {p \in (DOMAIN playoffs.rounds) \X (1..4) :
                         /\ p[2] \in DOMAIN playoffs.rounds[p[1]].matchups
                         /\ playoffs.rounds[p[1]].matchups[p[2]].has_winner}}

\* C11: a playoff matchup resolved with equal totals is won by the team with
\* the lower seed number; only when a seed is missing for either team does
\* the home team win.
C11_TieGoesToLowerSeed ==
    \A match \in ResolvedBracketMatches :
        match.home_total = match.away_total =>
            IF match.home_seed # NoSeed /\ match.away_seed # NoSeed
            THEN /\ match.winner.seed < match.loser.seed
                 /\ {match.winner.seed, match.loser.seed} = {match.home_seed, match.away_seed}
            ELSE /\ match.winner.seed = match.home_seed
                 /\ match.loser.seed = match.away_seed
                 /\ match.home_team # NoTeam => match.winner.team = match.home_team

\* a tied matchup went to the away team because its seed is the lower one
C11_Witness ==
    \E match \in ResolvedBracketMatches :
        /\ match.home_total = match.away_total
        /\ match.away_seed # NoSeed /\ match.home_seed # NoSeed
        /\ match.away_seed < match.home_seed
        /\ match.winner.team = match.away_team
        /\ match.winner.team # NoTeam

\* the pairs of each round as (home, away): a number n is seed n, <<r, m>>
\* is the winner of matchup m of round r
BracketShape(team_count) ==
    IF team_count = 4 THEN
        << << <<1, 4>>, <<2, 3>> >>,
           << << <<1, 1>>, <<1, 2>> >> >> >>
    ELSE IF team_count = 6 THEN
        << << <<3, 6>>, <<4, 5>> >>,
           << <<1, <<1, 2>> >>, <<2, <<1, 1>> >> >>,
           << << <<2, 1>>, <<2, 2>> >> >> >>
    ELSE
        << << <<1, 8>>, <<4, 5>>, <<3, 6>>, <<2, 7>> >>,
           << << <<1, 1>>, <<1, 2>> >>, << <<1, 3>>, <<1, 4>> >> >>,
           << << <<2, 1>>, <<2, 2>> >> >> >>

\* a bracket slot read as BracketShape writes it
SlotShape(source) == IF source.type = "seed" THEN source.seed ELSE <<source.round, source.match>>

\* what a slot holds once it is assigned from its source: the seed number
\* of a seed source; team and seed of the winner a winner source names
SlotFollowsSource(source, team, seed) ==
    IF source.type = "seed" THEN seed = source.seed
    ELSE /\ team = playoffs.rounds[source.round].matchups[source.match].winner.team
         /\ seed = playoffs.rounds[source.round].matchups[source.match].winner.seed
         /\ team # NoTeam

\* C12: without reseeding the bracket has the fixed shape: 4 teams 1v4, 2v3,
\* then the two winners; 8 teams 1v8, 4v5, 3v6, 2v7, then winner(1v8) v
\* winner(4v5) and winner(3v6) v winner(2v7), then the two winners; 6 teams
\* 3v6, 4v5, then seed 1 v winner(4v5) and seed 2 v winner(3v6), then the two
\* winners. The first round holds the teams of its seeds, and a round
\* whose previous round is resolved holds the winners its shape names.
C12_FixedBracketShape ==
    (playoffs.exists /\ ~playoffs_config.reseed) =>
        /\ [r \in DOMAIN playoffs.rounds |->
              [m \in DOMAIN playoffs.rounds[r].matchups |->
                 <<SlotShape(playoffs.rounds[r].matchups[m].sources.home),
                   SlotShape(playoffs.rounds[r].matchups[m].sources.away)>>]]
             = BracketShape(playoffs_config.teams)
        /\ \A m \in DOMAIN playoffs.rounds[1].matchups :
              LET match == playoffs.rounds[1].matchups[m]
              IN  /\ match.home_team = playoffs.seeds[match.sources.home.seed]
                  /\ match.away_team = playoffs.seeds[match.sources.away.seed]
        /\ \A r \in DOMAIN playoffs.rounds :
              (r > 1 /\ playoffs.rounds[r - 1].status = "completed") =>
                  \A m \in DOMAIN playoffs.rounds[r].matchups :
                      LET match == playoffs.rounds[r].matchups[m]
                      IN  /\ SlotFollowsSource(match.sources.home, match.home_team, match.home_seed)
                          /\ SlotFollowsSource(match.sources.away, match.away_team, match.away_seed)

\* an eight-team bracket played to its final, seed 8 having beaten seed 1
C12_Witness ==
    /\ playoffs.exists /\ playoffs.completed /\ playoffs_config.teams = 8
    /\ playoffs.rounds[1].matchups[1].winner.team = playoffs.seeds[8]
    /\ playoffs.rounds[2].matchups[1].home_team = playoffs.seeds[8]
    /\ playoffs.rounds[3].matchups[1].has_winner

\* the teams standing in the slots of a round, slot by slot
RoundSlots(round) ==
    [i \in 1..(2 * Len(round.matchups)) |->
        IF i % 2 = 1 THEN round.matchups[(i + 1) \div 2].home_team
        ELSE round.matchups[i \div 2].away_team]

\* C13: in a six-team bracket whose first round is resolved, the four slots of
\* the second round hold seed 1, seed 2 and the two first-round winners, each
\* exactly once and no slot empty, with reseeding off and on.
C13_ByesJoinSecondRound ==
    (playoffs.exists /\ playoffs_config.teams = 6 /\ playoffs.rounds[1].status = "completed") =>
        LET slots == RoundSlots(playoffs.rounds[2])
        IN  /\ Len(slots) = 4
            /\ \A i \in 1..Len(slots) : slots[i] # NoTeam
            /\ \A i, j \in 1..Len(slots) : slots[i] = slots[j] => i = j
            /\ SeqToSet(slots) = {playoffs.seeds[1], playoffs.seeds[2],
                                  playoffs.rounds[1].matchups[1].winner.team,
                                  playoffs.rounds[1].matchups[2].winner.team}

\* the seeds still in the bracket once rounds 1..round_index are resolved, best first
SurvivingSeeds(round_index) ==
    LET lost == {playoffs.rounds[p[1]].matchups[p[2]].loser.seed :
                    p \in {q \in (1..round_index) \X (1..4) :
                              /\ q[2] \in DOMAIN playoffs.rounds[q[1]].matchups
                              /\ playoffs.rounds[q[1]].matchups[q[2]].has_winner}}
        left == (1..playoffs_config.teams) \ lost
    IN  [i \in 1..Cardinality(left) |->
            CHOOSE seed \in left : Cardinality({other \in left : other < seed}) = i - 1]

\* C14: with reseeding, a round that follows a resolved round pairs the
\* surviving teams by original seed, best against worst, second best against
\* second worst and so on, the better seed at home; a team left without an
\* opponent stands against an empty slot.
C14_ReseedBestVersusWorst ==
    (playoffs.exists /\ playoffs_config.reseed) =>
        \A r \in DOMAIN playoffs.rounds :
            (r > 1 /\ playoffs.rounds[r - 1].status = "completed") =>
                LET survivors == SurvivingSeeds(r - 1)
                    n         == Len(survivors)
                IN  \A m \in 1..((n + 1) \div 2) :
                        /\ m \in DOMAIN playoffs.rounds[r].matchups
                        /\ LET match == playoffs.rounds[r].matchups[m]
                           IN  /\ match.home_seed = survivors[m]
                               /\ match.home_team = playoffs.seeds[survivors[m]]
                               /\ IF m < n + 1 - m
                                  THEN /\ match.away_seed = survivors[n + 1 - m]
                                       /\ match.away_team = playoffs.seeds[survivors[n + 1 - m]]
                                  ELSE /\ match.away_seed = NoSeed
                                       /\ match.away_team = NoTeam

\* the rounds a bracket of so many teams takes
RoundsOf(teams) == IF teams = 4 THEN 2 ELSE 3

\* the weeks of a list follow one another: no gap and no week twice
Contiguous(week_indices) ==
    LET named == SeqToSet(week_indices)
    IN  /\ Cardinality(named) = Len(week_indices)
        /\ \A week \in named : \A other \in named :
              other - week < Len(week_indices) /\ week - other < Len(week_indices)

\* what the claim lists as wrong with a requested configuration
ConfigFault(team_names, calendar, raw_config) ==
    \/ raw_config.teams \notin {4, 6, 8}
    \/ raw_config.teams > Len(team_names)
    \/ Len(raw_config.week_indices) # RoundsOf(raw_config.teams)
    \/ ~Contiguous(raw_config.week_indices)
    \/ \E i \in DOMAIN raw_config.week_indices :
          raw_config.week_indices[i] \notin 1..Len(BaseWeeks(calendar, team_names))

\* the messages validate_playoff_config raises
ValidationErrors ==
    {"Playoff configuration is missing the number of teams.",
     "Playoffs support 4, 6, 8 teams.",
     "Playoff team count cannot exceed total teams in the league.",
     "playoffs require a week per round.",
     "Playoff weeks must be contiguous.",
     "Playoff weeks extend beyond the season calendar.",
     "Week is not available in the season calendar."}

\* C15: for an enabled configuration, validate_playoff_config raises when the
\* team count is missing or not 4, 6 or 8, exceeds the league's teams, the
\* weeks are not as many as the rounds (4 -> 2, 6 -> 3, 8 -> 3), are not
\* contiguous or are not weeks of the season; otherwise, and only then, it
\* returns an enabled configuration of these teams and weeks.
C15_ValidatePlayoffConfig ==
    [][(CreateLeague /\ league.raw_playoffs.enabled) =>
          IF ConfigFault(league.team_names, league.calendar, league.raw_playoffs)
          THEN /\ outcome' \in ValidationErrors
               /\ UNCHANGED <<weeks, playoffs_config, history, phase>>
          ELSE /\ outcome' = "ok"
               /\ is_enabled(playoffs_config')
               /\ playoffs_config'.teams = league.raw_playoffs.teams
               /\ SeqToSet(playoffs_config'.week_indices) = SeqToSet(league.raw_playoffs.week_indices)]_vars

\* a four-team bracket asked for with the weeks 1 and 3 was refused
C15_Witness ==
    /\ ~LeagueExists /\ outcome = "Playoff weeks must be contiguous."
    /\ league.raw_playoffs.teams = 4 /\ league.raw_playoffs.week_indices = <<1, 3>>

\* the weeks of a list are given in ascending order
Ascending(week_indices) ==
    \A i \in DOMAIN week_indices : \A j \in DOMAIN week_indices :
        i < j => week_indices[i] < week_indices[j]

\* C16: an invalid playoff configuration is never silently corrected: an
\* enabled request whose weeks are not given in ascending order is refused,
\* not reordered, and loading a league whose stored configuration fails the
\* validation does not end quietly with the playoffs disabled.
C16_NeverSilentlyCorrected ==
    [][/\ (CreateLeague /\ league.raw_playoffs.enabled /\ ~Ascending(league.raw_playoffs.week_indices))
            => outcome' \in ValidationErrors
       /\ (/\ LeagueExists
           /\ LoadStoredLeagueState(StaleConfig)
           /\ ~validate_playoff_config(Len(league.team_names), weeks, StaleConfig).ok)
            => ~(outcome' = "ok" /\ ~is_enabled(playoffs_config'))]_vars

\* the messages _prepare_playoff_preview_components raises
PreviewErrors ==
    {"Playoffs are not enabled for this league.",
     "Playoff configuration is missing scheduled weeks.",
     "Not enough teams available to seed the playoffs."}

\* C17: the playoff preview asked for a league whose playoffs are not enabled
\* raises a validation error and returns no payload.
C17_PreviewRefusedWhenDisabled ==
    [][(LeagueExists /\ ~is_enabled(playoffs_config) /\ BuildPlayoffPreview)
          => /\ outcome' \in PreviewErrors
             /\ ~build_playoff_preview(State).ok]_vars

\* a matchup one of whose slots holds no team
Unfilled(match) == match.home_team = NoTeam \/ match.away_team = NoTeam

\* C18: a round one of whose matchups still has an unfilled slot stays pending
\* when its week ends: it is not marked completed, no winner is recorded for
\* the unfilled matchup, and the bracket does not advance past the round.
C18_UnfilledRoundStaysPending ==
    playoffs.exists =>
        \A r \in DOMAIN playoffs.rounds :
            (\E m \in DOMAIN playoffs.rounds[r].matchups : Unfilled(playoffs.rounds[r].matchups[m])) =>
                /\ playoffs.rounds[r].status # "completed"
                /\ \A m \in DOMAIN playoffs.rounds[r].matchups :
                      Unfilled(playoffs.rounds[r].matchups[m]) => ~playoffs.rounds[r].matchups[m].has_winner
                /\ ~(r = Len(playoffs.rounds) /\ (playoffs.completed \/ phase = "finished"))
                /\ \A later \in DOMAIN playoffs.rounds : later > r => playoffs.rounds[later].status # "completed"

\* C19: every roster holds at most roster_size players, and no player id
\* stands in two rosters or twice in one roster.
C19_RostersBoundedAndDisjoint ==
    /\ \A team \in DOMAIN rosters :
          /\ Len(rosters[team]) <= league.roster_size
          /\ \A i, j \in DOMAIN rosters[team] : rosters[team][i] = rosters[team][j] => i = j
    /\ \A team, other \in DOMAIN rosters :
          team # other => SeqToSet(rosters[team]) \cap SeqToSet(rosters[other]) = {}

\* the draft was completed with every roster full, the user holding a player
\* added outside the draft order
C19_Witness ==
    /\ draft_state.exists /\ draft_state.status = "completed"
    /\ \A team \in DOMAIN rosters : Len(rosters[team]) = league.roster_size
    /\ UnrankedPlayer \in SeqToSet(rosters[league.user_team_name])

\* the sum of the per-date subtotals of a team entry
RECURSIVE SumDailyTotals(_, _)
SumDailyTotals(daily_totals, dates) ==
    IF dates = {} THEN 0
    ELSE LET d == CHOOSE x \in dates : TRUE
         IN  daily_totals[d] + SumDailyTotals(daily_totals, dates \ {d})

\* the day totals of a team in the history records dated within a week
RECURSIVE HistoryWeekTotal(_, _, _)
HistoryWeekTotal(records, week, team) ==
    IF records = <<>> THEN 0
    ELSE (IF Head(records).date >= week.start /\ Head(records).date <= week.end
          THEN SumSeq([k \in DOMAIN Head(records).team_results |->
                          IF Head(records).team_results[k].team = team
                          THEN Head(records).team_results[k].total ELSE 0])
          ELSE 0) + HistoryWeekTotal(Tail(records), week, team)

LatestDate == IF history = <<>> THEN NoDate ELSE history[Len(history)].date

WeekStarted(w) == LatestDate # NoDate /\ LatestDate >= weeks[w].start

WeekCompleted(w) == LatestDate # NoDate /\ LatestDate > weeks[w].end

PlayoffWeek(w) ==
    is_enabled(playoffs_config) /\ weeks[w].index \in SeqToSet(playoffs_config.week_indices)

\* the matchups of the started weeks that are not playoff weeks, seen from a
\* team: its own total and its opponent's
TeamMatchups(team) ==
    {[week |-> p[1], matchup |-> p[2],
      own  |-> EntryTotal(weekly_results, weeks[p[1]].matchups[p[2]].id, team),
      opp  |-> EntryTotal(weekly_results, weeks[p[1]].matchups[p[2]].id,
                          CHOOSE other \in SeqToSet(weeks[p[1]].matchups[p[2]].teams) : other # team)] :
        p \in {q \in (DOMAIN weeks) \X (1..4) :
                  /\ q[2] \in DOMAIN weeks[q[1]].matchups
                  /\ team \in SeqToSet(weeks[q[1]].matchups[q[2]].teams)
                  /\ WeekStarted(q[1])
                  /\ ~PlayoffWeek(q[1])}}

\* the standings row of a team
StandingsOf(team) ==
    LET standings == compute_head_to_head_standings(State, NoDate)
    IN  standings[CHOOSE i \in DOMAIN standings : standings[i].team = team]

\* C21: a matchup counts as a win and a loss, or as a tie, for its two teams
\* only when its week is not a playoff week and is completed; a week started
\* but not completed adds points for and against only; a tie is counted only
\* for equal totals; playoff weeks add nothing.
C21_StandingsCountCompletedWeeks ==
    LeagueExists =>
        \A team \in SeqToSet(league.team_names) :
            LET row     == StandingsOf(team)
                played  == TeamMatchups(team)
                decided == {m \in played : WeekCompleted(m.week)}
            IN  /\ row.wins = Cardinality({m \in decided : m.own > m.opp})
                /\ row.losses = Cardinality({m \in decided : m.own < m.opp})
                /\ row.ties = Cardinality({m \in decided : m.own = m.opp})
                /\ row.points_for = SumOver(played, [m \in played |-> m.own])
                /\ row.points_against = SumOver(played, [m \in played |-> m.opp])

\* a regular week is completed with a winner while the next one, in progress,
\* has only added points
C21_Witness ==
    /\ ~is_enabled(playoffs_config)
    /\ \E team \in SeqToSet(league.team_names) :
          /\ StandingsOf(team).wins = 1
          /\ StandingsOf(team).games_played = 1
          /\ \E m \in TeamMatchups(team) : ~WeekCompleted(m.week) /\ m.own > m.opp

\* the standings as the league's state gives them
Standings == compute_head_to_head_standings(State, NoDate)

\* the win percentage of a row as a fraction: (wins + half the ties) over the
\* games played, 0 over 1 without games
PctNum(row) == IF row.games_played = 0 THEN 0 ELSE 2 * row.wins + row.ties

PctDen(row) == IF row.games_played = 0 THEN 1 ELSE 2 * row.games_played

\* row a stands before row b: win percentage, wins, point differential and
\* points for descending, then team name ascending
StandsBefore(a, b) ==
    LET pa == PctNum(a) * PctDen(b)
        pb == PctNum(b) * PctDen(a)
    IN  \/ pa > pb
        \/ pa = pb /\ a.wins > b.wins
        \/ pa = pb /\ a.wins = b.wins /\ a.point_diff > b.point_diff
        \/ pa = pb /\ a.wins = b.wins /\ a.point_diff = b.point_diff /\ a.points_for > b.points_for
        \/ /\ pa = pb /\ a.wins = b.wins /\ a.point_diff = b.point_diff /\ a.points_for = b.points_for
           /\ a.team < b.team

\* every league team has one row, the rows are in order, games played is the
\* sum of wins, losses and ties
StandingsListed(standings) ==
    /\ Len(standings) = Len(league.team_names)
    /\ {standings[i].team : i \in DOMAIN standings} = SeqToSet(league.team_names)
    /\ \A i, j \in DOMAIN standings : i < j => StandsBefore(standings[i], standings[j])
    /\ \A i \in DOMAIN standings :
          standings[i].games_played = standings[i].wins + standings[i].losses + standings[i].ties

SeedingStandings ==
    IF awaiting_simulation'
    THEN compute_head_to_head_standings(State', MinOf(playoffs_config.week_indices) - 1)
    ELSE compute_head_to_head_standings(State, MinOf(playoffs_config.week_indices) - 1)

\* C23: when the bracket of N teams is generated from standings of at least N
\* teams, the seeds are exactly 1..N, seed k is the team of the k-th standings
\* row and no team holds two seeds; asked for more teams than the standings
\* hold, the generation raises an error.
C23_SeedsFollowStandings ==
    [][/\ (~playoffs.exists /\ playoffs'.exists) =>
             With(SeedingStandings, LAMBDA standings :
                /\ Len(standings) >= playoffs_config.teams
                /\ DOMAIN playoffs'.seeds = 1..playoffs_config.teams
                /\ \A k \in DOMAIN playoffs'.seeds : playoffs'.seeds[k] = standings[k].team
                /\ \A k, n \in DOMAIN playoffs'.seeds :
                      playoffs'.seeds[k] = playoffs'.seeds[n] => k = n)
       /\ LeagueExists =>
             \A teams \in {4, 6, 8} :
                 teams > Len(league.team_names) =>
                     ~build_playoff_preview(
                         [State EXCEPT !.playoffs_config =
                             [enabled |-> TRUE, teams |-> teams, week_indices |-> <<1, 2, 3>>,
                              reseed |-> FALSE, consolation |-> FALSE]]).ok]_vars

\* the bracket was seeded after a regular season that put the team listed
\* last in the league at seed 1
C23_Witness ==
    /\ playoffs.exists
    /\ MinOf(playoffs_config.week_indices) > 1
    /\ playoffs.seeds[1] = league.team_names[Len(league.team_names)]

(***************************************************************************)
(* C24: the start of the playoffs                                          *)
(***************************************************************************)
\* the week of the cursor, 0 without a current date
CursorWeek == IF current_date(State) = NoDate THEN 0
              ELSE _find_week_for_date(weeks, current_date(State))

\* the total of a team in a day record
DayTotalOf(record, team) ==
    SumSeq([k \in DOMAIN record.team_results |->
               IF record.team_results[k].team = team THEN record.team_results[k].total ELSE 0])

\* a step in which simulate_day succeeds on a date of the first playoff week
\* while playoffs are enabled and the bracket has not started
FirstPlayoffDaySimulated ==
    /\ LeagueExists
    /\ is_enabled(playoffs_config)
    /\ ~(playoffs.exists /\ playoffs.started)
    /\ CursorWeek = MinOf(playoffs_config.week_indices)
    /\ CanSimulate(State)
    /\ awaiting_simulation /\ ~awaiting_simulation'

\* C24 as stated: after the first successful simulate_day on a date of the
\* first playoff week the phase is playoffs and round 1 of the new bracket is
\* active.
C24_RoundOneActiveAfterFirstDate ==
    [][FirstPlayoffDaySimulated =>
          /\ phase' = "playoffs"
          /\ playoffs'.exists
          /\ playoffs'.rounds # <<>>
          /\ playoffs'.rounds[1].status = "active"]_vars

\* C24: the first successful simulate_day on a date of the first configured
\* playoff week, with playoffs enabled and not yet started, sets phase to
\* playoffs and creates the bracket with its round-1 seed teams filled in
\* and round 1 active, or already completed when the date is the last of its
\* week; the date's team totals are accumulated into the round-1 bracket
\* matchups; before the cursor reaches that week the phase stays
\* regular and no bracket exists.
C24_PlayoffsStartOnFirstPlayoffDate ==
    [][/\ FirstPlayoffDaySimulated =>
              /\ phase' = "playoffs"
              /\ playoffs'.exists /\ playoffs'.started
              /\ playoffs'.rounds # <<>>
              /\ playoffs'.rounds[1].status \in {"active", "completed"}
              /\ playoffs'.rounds[1].status = "completed" =>
                     current_date(State) >= weeks[CursorWeek].end
              /\ \A m \in DOMAIN playoffs'.rounds[1].matchups :
                    LET match == playoffs'.rounds[1].matchups[m]
                    IN  /\ match.home_seed \in DOMAIN playoffs'.seeds
                        /\ match.away_seed \in DOMAIN playoffs'.seeds
                        /\ match.home_team = playoffs'.seeds[match.home_seed]
                        /\ match.away_team = playoffs'.seeds[match.away_seed]
                        /\ match.matchup_id \in DOMAIN weekly_results'
                        /\ \A team \in {match.home_team, match.away_team} :
                              /\ team \in DOMAIN weekly_results'[match.matchup_id].teams
                              /\ weekly_results'[match.matchup_id].teams[team].total
                                    = DayTotalOf(history'[Len(history')], team)
       /\ (LeagueExists /\ is_enabled(playoffs_config) /\ current_date(State) # NoDate
              /\ CursorWeek < MinOf(playoffs_config.week_indices)) =>
              (phase = "regular" /\ ~playoffs.exists)]_vars

\* the first date of the first playoff week, which is also its last, has
\* been simulated with a score after a regular week: round 1 of the new
\* bracket is completed already
C24_Witness ==
    /\ playoffs.exists
    /\ phase = "playoffs"
    /\ MinOf(playoffs_config.week_indices) > 1
    /\ playoffs.rounds[1].status = "completed"
    /\ ~awaiting_simulation
    /\ CursorWeek = MinOf(playoffs_config.week_indices)
    /\ \E team \in DOMAIN weekly_results[playoffs.rounds[1].matchups[1].matchup_id].teams :
          weekly_results[playoffs.rounds[1].matchups[1].matchup_id].teams[team].total > 0

(***************************************************************************)
(* C25: simulate_until_playoffs                                            *)
(***************************************************************************)
\* how simulate_until_playoffs may end when it is called in the state st:
\* without an error, and with the bracket started, phase playoffs and the
\* first date of the first playoff week awaiting simulation, or with the
\* calendar exhausted
ReachesPlayoffStart(st) ==
    \A logs \in [UntilDates(st) -> DayScores(st.team_names)] :
        With(simulate_until_playoffs(st, logs), LAMBDA r :
            /\ r.ok
            /\ r.error # "Unable to reach playoff start. Check the playoff configuration."
            /\ \/ current_date(r.st) = NoDate
               \/ /\ PlayoffsStarted(r.st)
                  /\ r.st.phase = "playoffs"
                  /\ r.st.awaiting_simulation
                  /\ With(MinOf(r.st.playoffs_config.week_indices), LAMBDA first_week :
                        /\ _find_week_for_date(r.st.weeks, current_date(r.st)) = first_week
                        /\ \A i \in 1..r.st.current_index :
                              _find_week_for_date(r.st.weeks, r.st.calendar[i]) # first_week))

\* C25 as stated: called with playoffs enabled and the draft complete,
\* simulate_until_playoffs never raises the iteration-bound error and returns
\* with the bracket started, phase playoffs and the first date of the first
\* playoff week awaiting simulation, or with the calendar exhausted.
C25_UntilPlayoffsAsStated ==
    (LeagueExists /\ is_enabled(playoffs_config) /\ ~draft_is_active(State)) =>
        With(State, LAMBDA st : ReachesPlayoffStart(st))

\* C25: called with playoffs enabled, the draft complete and the bracket not
\* yet started, simulate_until_playoffs never raises the iteration-bound error
\* and returns with the bracket started, phase playoffs and the first date of
\* the first playoff week awaiting simulation, or with the calendar exhausted;
\* called with the bracket already started it returns at once and changes
\* nothing.
C25_UntilPlayoffsReachesStart ==
    (LeagueExists /\ is_enabled(playoffs_config) /\ ~draft_is_active(State)) =>
        With(State, LAMBDA st :
            IF PlayoffsStarted(st)
            THEN simulate_until_playoffs(st, EmptyDict) = Return(st)
            ELSE ReachesPlayoffStart(st))

\* simulate_until_playoffs has played the regular week and started the
\* bracket: the first playoff date is still to be simulated
C25_Witness ==
    /\ PlayoffsStarted(State)
    /\ phase = "playoffs"
    /\ awaiting_simulation
    /\ history # <<>>
    /\ CursorWeek = MinOf(playoffs_config.week_indices)
    /\ outcome = "ok"

(***************************************************************************)
(* C26: failed operations                                                  *)
(***************************************************************************)
\* a step of an operation that ended in an error
CallFailed == outcome' # "ok" /\ outcome' # ""

\* C26: no operation that ends in an error leaves a partial update in the
\* persisted league state: after a failed simulate_day, advance_league_day,
\* draft_pick_player, draft_autodraft_rest, finalize_draft or
\* simulate_until_playoffs the persisted state equals the persisted state
\* before the call.
C26_FailedOperationsChangeNothing ==
    [][CallFailed => LeagueFields' = LeagueFields]_vars

\* the same for every failure but that of draft_autodraft_rest running out
\* of players
C26_FailuresButAutodraftChangeNothing ==
    [][(CallFailed /\ outcome' # "No players available to draft.")
          => LeagueFields' = LeagueFields]_vars

(***************************************************************************)
(* C27: draft_pick_player                                                  *)
(***************************************************************************)
\* the player ids a pick may name: the ranked ones and one that is not ranked
PickablePlayers == SeqToSet(league.ordered_ids) \cup {UnrankedPlayer}

\* the cases in which a pick is to be refused
PickRefused(st, pid) ==
    \/ ~draft_is_active(st)
    \/ Len(st.rosters[st.user_team_name]) >= st.roster_size
    \/ pid \in RosterIds(st.rosters)
    \/ pid \in SeqToSet(st.draft_state.taken_ids)

\* C27: draft_pick_player fails and changes neither the rosters nor the draft
\* state when the draft is not active, when the human team's roster is already
\* at roster size, or when the player id is already on any roster or in the
\* taken set; otherwise it appends the player to the human team's roster and
\* to the picked and taken lists.
C27_DraftPickPlayer ==
    (LeagueExists /\ league.user_team_name # NoTeam) =>
        With(State, LAMBDA st :
            \A pid \in PickablePlayers :
                With(draft_pick_player(st, pid), LAMBDA r :
                    IF PickRefused(st, pid)
                    THEN /\ ~r.ok
                         /\ r.st.rosters = st.rosters
                         /\ r.st.draft_state = st.draft_state
                    ELSE /\ r.ok
                         /\ r.st.rosters =
                               [st.rosters EXCEPT ![st.user_team_name] = Append(@, pid)]
                         /\ r.st.draft_state =
                               [st.draft_state EXCEPT !.user_picks = Append(@, pid),
                                                      !.taken_ids = Append(@, pid)]
                         /\ r.st = [st EXCEPT !.rosters = r.st.rosters,
                                              !.draft_state = r.st.draft_state]))

\* the user has picked a full roster in an active draft and a further pick
\* has just been refused
C27_Witness ==
    /\ draft_is_active(State)
    /\ Len(rosters[league.user_team_name]) = league.roster_size
    /\ rosters[league.user_team_name] = draft_state.user_picks
    /\ outcome = "Roster is already full."

(***************************************************************************)
(* C28: finalize_draft                                                     *)
(***************************************************************************)
\* the ids finalize_draft has put on the rosters of updated on top of existing
NewlyDrafted(existing, updated) == RosterIds(updated) \ RosterIds(existing)

\* the candidates that are on no roster, in candidate order
Untaken(candidate_ids, existing) ==
    FilterSeq(candidate_ids, LAMBDA pid : pid \notin RosterIds(existing))

RoundRobinPicks(candidate_ids, k, i, roster_size) ==
    LET passes == {j \in 0..(roster_size - 1) : i + j * k <= Len(candidate_ids)}
    IN  [j \in 1..Cardinality(passes) |-> candidate_ids[i + (j - 1) * k]]

\* C29: a full auto-draft over k teams gives the team at position i (1..k) the
\* candidates ranked i, i + k, i + 2k, ... : every pass goes through the teams
\* in the same order, each taking the best untaken candidate, until every
\* roster has roster_size players or the candidates run out.
C29_AutoDraftRoundRobin ==
    (LeagueExists /\ league.user_team_name = NoTeam) =>
        /\ \A i \in DOMAIN league.team_names :
              rosters[league.team_names[i]] =
                  RoundRobinPicks(league.ordered_ids, Len(league.team_names), i, league.roster_size)
        /\ _auto_draft_teams(league.ordered_ids, league.team_names, league.roster_size,
                             EmptyRosters(league.team_names)) = rosters

\* two auto-drafted teams with rosters of three: ranks 1, 3, 5 and 2, 4, 6
C29_Witness ==
    /\ LeagueExists
    /\ Len(league.team_names) = 2
    /\ league.roster_size = 3
    /\ rosters[league.team_names[1]] = <<11, 13, 15>>
    /\ rosters[league.team_names[2]] = <<12, 14, 16>>
    /\ history = <<>>
    /\ current_index = 0
    /\ outcome = "ok"

(***************************************************************************)
(* C30: reset_league_state                                                 *)
(***************************************************************************)
\* every total of the weekly results is zero and no date is recorded
AllTotalsZero(results) ==
    \A id \in DOMAIN results :
        /\ results[id].days = <<>>
        /\ \A team \in DOMAIN results[id].teams :
              /\ results[id].teams[team].total = 0
              /\ DOMAIN results[id].teams[team].daily_totals = {}

\* C30: reset_league_state, from any state including phase = finished, leaves
\* team count, roster size, human team name and team names unchanged and sets
\* the cursor to the first date, awaiting_simulation to true, history to
\* empty, every weekly total to zero, phase to regular and the bracket to
\* none; with a human team it empties all rosters and puts the draft back to
\* pending, otherwise it auto-drafts all rosters and has no draft state.
C30_ResetLeagueState ==
    LeagueExists =>
        With(State, LAMBDA st :
        With(reset_league_state(st, league.ordered_ids), LAMBDA r :
            /\ r.team_names = st.team_names
            /\ r.team_count = st.team_count
            /\ r.roster_size = st.roster_size
            /\ r.user_team_name = st.user_team_name
            /\ r.calendar = st.calendar
            /\ r.current_index = 0
            /\ current_date(r) = st.calendar[1]
            /\ r.awaiting_simulation
            /\ r.history = <<>>
            /\ AllTotalsZero(r.weekly_results)
            /\ \A w \in DOMAIN r.weeks : r.weeks[w].playoff_round = 0
            /\ r.phase = "regular"
            /\ ~r.playoffs.exists
            /\ IF st.user_team_name # NoTeam
               THEN /\ \A team \in DOMAIN r.rosters : r.rosters[team] = <<>>
                    /\ r.draft_state.exists
                    /\ r.draft_state.status = "pending"
                    /\ r.draft_state.user_team = st.user_team_name
                    /\ r.draft_state.user_picks = <<>>
                    /\ r.draft_state.taken_ids = <<>>
                    /\ draft_is_active(r)
               ELSE /\ \A i \in DOMAIN st.team_names :
                          r.rosters[st.team_names[i]] =
                              RoundRobinPicks(league.ordered_ids, Len(st.team_names), i, st.roster_size)
                    /\ ~r.draft_state.exists))

\* a finished league with its bracket and a scored playoff final, from which
\* the reset starts over
C30_Witness ==
    /\ phase = "finished"
    /\ playoffs.exists
    /\ playoffs.completed
    /\ ~AllTotalsZero(weekly_results)
    /\ history # <<>>

(***************************************************************************)
(* C31: the round-robin generator                                          *)
(***************************************************************************)
\* the teams paired in a round
RoundTeams(round) == UNION {{round[k][1], round[k][2]} : k \in DOMAIN round}

\* the cycle generated for a team list: its length, every pair once, nobody
\* against itself or twice in a round, one round off for each team of an odd
\* list and no entry for the bye
RoundRobinCycle(names) ==
    With(_round_robin_pairs(names), LAMBDA schedule :
        LET n     == Len(names)
            teams == SeqToSet(names)
        IN  /\ Len(schedule) = IF n % 2 = 0 THEN n - 1 ELSE n
            /\ \A r \in DOMAIN schedule :
                  /\ Len(schedule[r]) = n \div 2
                  /\ \A k \in DOMAIN schedule[r] :
                        /\ schedule[r][k][1] \in teams
                        /\ schedule[r][k][2] \in teams
                        /\ schedule[r][k][1] # schedule[r][k][2]
                  /\ \A k, l \in DOMAIN schedule[r] :
                        k # l => {schedule[r][k][1], schedule[r][k][2]}
                                    \cap {schedule[r][l][1], schedule[r][l][2]} = {}
            /\ \A a, b \in teams :
                  a # b => Cardinality({rk \in {<<r, k>> : r \in DOMAIN schedule, k \in 1..(n \div 2)} :
                                           {schedule[rk[1]][rk[2]][1], schedule[rk[1]][rk[2]][2]} = {a, b}}) = 1
            /\ \A team \in teams :
                  Cardinality({r \in DOMAIN schedule : team \notin RoundTeams(schedule[r])})
                      = IF n % 2 = 0 THEN 0 ELSE 1)

\* C31: for N teams the round-robin generator yields a cycle (N-1 rounds for
\* even N, N rounds for odd N) in which every pair of distinct teams meets
\* exactly once, no team plays itself, no team appears twice in one round, and
\* for odd N each team sits out exactly one round with no matchup entry
\* created for the bye.
C31_RoundRobinCycle ==
    LeagueExists =>
        /\ RoundRobinCycle(league.team_names)
        /\ \A n \in 1..MaxTeams : RoundRobinCycle([i \in 1..n |-> i])
        /\ \A w \in DOMAIN weeks :
              weeks[w].playoff_round = 0 =>
                  With(_round_robin_pairs(league.team_names), LAMBDA schedule :
                      {{weeks[w].matchups[k].teams[1], weeks[w].matchups[k].teams[2]} :
                            k \in DOMAIN weeks[w].matchups}
                        = {{schedule[((w - 1) % Len(schedule)) + 1][k][1],
                            schedule[((w - 1) % Len(schedule)) + 1][k][2]} :
                            k \in DOMAIN schedule[((w - 1) % Len(schedule)) + 1]})

\* a league of three teams: its week has one matchup and one team sits out,
\* without a matchup entry
C31_Witness ==
    /\ LeagueExists
    /\ Len(league.team_names) = 3
    /\ Len(weeks[1].matchups) = 1
    /\ Cardinality(DOMAIN weekly_results) = 1
    /\ \E team \in SeqToSet(league.team_names) :
          \A k \in DOMAIN weeks[1].matchups : team \notin SeqToSet(weeks[1].matchups[k].teams)
    /\ history # <<>>

(***************************************************************************)
(* C32: week ranges                                                        *)
(***************************************************************************)
\* the weekday of a day number, Monday = 1 ... Sunday = 7
Weekday(day) == (day % 7) + 1

\* the week ranges of a calendar as stated: week 1 from the first date to its
\* Sunday, then whole weeks without gap or overlap up to the last date, each
\* calendar date in exactly one week
WeekRangesCover(calendar) ==
    With(_compute_week_ranges(calendar), LAMBDA ranges :
        LET first_date == CHOOSE d \in SeqToSet(calendar) : \A e \in SeqToSet(calendar) : d <= e
            last_date  == CHOOSE d \in SeqToSet(calendar) : \A e \in SeqToSet(calendar) : e <= d
        IN  /\ ranges # <<>>
            /\ ranges[1].start = first_date
            /\ Weekday(ranges[1].end) = 7
            /\ ranges[1].end - ranges[1].start + 1 = 8 - Weekday(first_date)
            /\ \A i \in 2..Len(ranges) :
                  /\ Weekday(ranges[i].start) = 1
                  /\ ranges[i].end - ranges[i].start + 1 = 7
                  /\ ranges[i].start = ranges[i - 1].end + 1
            /\ ranges[Len(ranges)].start <= last_date
            /\ last_date <= ranges[Len(ranges)].end
            /\ \A d \in SeqToSet(calendar) :
                  Cardinality({i \in DOMAIN ranges : ranges[i].start <= d /\ d <= ranges[i].end}) = 1)

\* C32: for every non-empty calendar, week 1 runs from the first date through
\* the Sunday of that calendar week (8 - startWeekday days, Monday = 1), every
\* later week is exactly Monday to Sunday (7 days), consecutive weeks leave no
\* gap and do not overlap, and the last week contains the last calendar date,
\* so every calendar date lies in exactly one week. The ranges are computed
\* when a league is created or reset (empty history): there they are checked
\* for every first weekday and season length as well.
C32_WeekRanges ==
    LeagueExists =>
        /\ WeekRangesCover(league.calendar)
        /\ history = <<>> =>
              \A first_date \in 0..6 :
                  \A last_date \in first_date..(first_date + MaxSeasonDays) :
                      WeekRangesCover(<<first_date, last_date>>)
        /\ With(_compute_week_ranges(league.calendar), LAMBDA ranges :
              /\ Len(weeks) = Len(ranges)
              /\ \A i \in DOMAIN weeks :
                    /\ weeks[i].index = i
                    /\ weeks[i].start = ranges[i].start
                    /\ weeks[i].end = ranges[i].end
              /\ \A d \in SeqToSet(league.calendar) :
                    With(_find_week_for_date(weeks, d), LAMBDA w :
                        /\ w \in DOMAIN weeks
                        /\ weeks[w].start <= d
                        /\ d <= weeks[w].end))

\* a season that begins on a Tuesday: week 1 has six days, week 2 is a whole
\* week, and a date of week 2 has been simulated
C32_Witness ==
    /\ LeagueExists
    /\ Weekday(weeks[1].start) = 2
    /\ weeks[1].end - weeks[1].start + 1 = 6
    /\ Len(weeks) = 2
    /\ weeks[2].end - weeks[2].start + 1 = 7
    /\ history # <<>>
    /\ history[Len(history)].week_index = 2

(***************************************************************************)
(* C33: compute_fantasy_points                                             *)
(***************************************************************************)
\* stat value times weight for one statistic of a row, 0 when the scoring
\* profile has no weight for it
WeightedStat(row, scoring_weights, stat) ==
    IF stat \in DOMAIN scoring_weights THEN row[stat] * scoring_weights[stat] ELSE 0

\* C33: compute_fantasy_points fails when any key of the weight mapping is not
\* a column of the rows, including keys whose weight is 0; otherwise each
\* row's derived total equals the sum over all weight keys of stat value times
\* weight, and the input rows are not modified.
C33_ComputeFantasyPoints ==
    [][(stats.job = "fantasy" /\ stats.fantasy = <<>> /\ stats'.fantasy # <<>>) =>
          With(stats'.fantasy[1], LAMBDA r :
              /\ stats'.frame = stats.frame
              /\ stats'.weights = stats.weights
              /\ IF \E stat \in DOMAIN stats.weights : stat \notin stats.frame.columns
                 THEN ~r.ok
                 ELSE /\ r.ok
                      /\ Len(r.frame.rows) = Len(stats.frame.rows)
                      /\ \A i \in DOMAIN stats.frame.rows :
                            /\ r.frame.rows[i].FANTASY_POINTS
                                  = WeightedStat(stats.frame.rows[i], stats.weights, "FGM")
                                    + WeightedStat(stats.frame.rows[i], stats.weights, "FGA")
                            /\ \A c \in stats.frame.columns :
                                  r.frame.rows[i][c] = stats.frame.rows[i][c])]_vars

\* a frame without the FGA column was refused although the weight of FGA is 0
\* and every other weighted statistic is a column
C33_Witness ==
    /\ stats.job = "fantasy"
    /\ stats.fantasy # <<>>
    /\ ~stats.fantasy[1].ok
    /\ stats.frame.rows # <<>>
    /\ DOMAIN stats.weights = {"FGM", "FGA"}
    /\ stats.weights["FGA"] = 0
    /\ stats.weights["FGM"] = 2
    /\ stats.frame.columns = {"FGM"}

(***************************************************************************)
(* C34: ratio categories, merged and direct                                *)
(***************************************************************************)
\* C34: for a ratio category, computing the category totals of two disjoint
\* row sets and merging them (numerators added, denominators added, then
\* divided) gives the same numerator, denominator and value as computing the
\* totals of the union directly; a zero total denominator gives value 0.
C34_MergedRatioIsDirectRatio ==
    (stats.job = "categories" /\ stats.direct # <<>> /\ stats.merged # <<>>) =>
        With(stats.direct[1], LAMBDA direct :
        With(stats.merged[1], LAMBDA merged :
            \A key \in DOMAIN Categories :
                Categories[key].ratio =>
                    /\ key \in DOMAIN direct /\ key \in DOMAIN merged
                    /\ merged[key].numerator = direct[key].numerator
                    /\ merged[key].denominator = direct[key].denominator
                    /\ merged[key].value = direct[key].value
                    /\ merged[key].numerator
                          = _safe_sum(stats.frame, Categories[key].numerator)
                            + _safe_sum(stats.other, Categories[key].numerator)
                    /\ merged[key].denominator
                          = _safe_sum(stats.frame, Categories[key].denominator)
                            + _safe_sum(stats.other, Categories[key].denominator)
                    /\ IF merged[key].denominator = 0
                       THEN merged[key].value = [n |-> 0, d |-> 1]
                       ELSE merged[key].value.n * merged[key].denominator
                               = merged[key].numerator * merged[key].value.d))

\* both row sets have attempts, one of them a make: merged and direct give 1/2
C34_Witness ==
    /\ stats.job = "categories"
    /\ stats.direct # <<>>
    /\ stats.merged # <<>>
    /\ _safe_sum(stats.frame, "FGA") > 0
    /\ _safe_sum(stats.other, "FGA") > 0
    /\ _safe_sum(stats.frame, "FGM") > 0
    /\ stats.merged[1]["FG_PCT"].value = [n |-> 1, d |-> 2]
    /\ stats.direct[1]["FG_PCT"].value = [n |-> 1, d |-> 2]

(***************************************************************************)
(* C35: the week of a bracket round                                        *)
(***************************************************************************)
\* every slot of the round holds a team
TeamsAssigned(round) ==
    \A m \in DOMAIN round.matchups :
        round.matchups[m].home_team # NoTeam /\ round.matchups[m].away_team # NoTeam

\* the round is pending with teams assigned, active or completed
RoundIsBound(round) ==
    \/ round.status \in {"active", "completed"}
    \/ round.status = "pending" /\ TeamsAssigned(round)

\* the matchup list of the round's week consists exactly of the round's
\* bracket pairings
WeekHoldsPairings(round) ==
    /\ Len(weeks[round.week_index].matchups) = Len(round.matchups)
    /\ \A m \in DOMAIN round.matchups :
          /\ weeks[round.week_index].matchups[m].id = round.matchups[m].matchup_id
          /\ weeks[round.week_index].matchups[m].teams
                = <<round.matchups[m].home_team, round.matchups[m].away_team>>

\* weekly results hold no entry for a regular-season matchup id of the week
NoRegularResults(week_index) ==
    \A id \in DOMAIN weekly_results : ~(id[1] = "week" /\ id[2] = week_index)

\* C35: while a bracket round is pending with teams assigned, active or
\* completed, the matchup list of its week consists exactly of the round's
\* bracket pairings, and weekly results hold no entry for a regular-season
\* matchup id of that week - also in the state obtained by saving and loading
\* the league.
C35_PlayoffWeekHoldsBracket ==
    playoffs.exists =>
        \A r \in DOMAIN playoffs.rounds :
            (RoundIsBound(playoffs.rounds[r]) /\ playoffs.rounds[r].week_index \in DOMAIN weeks) =>
                /\ WeekHoldsPairings(playoffs.rounds[r])
                /\ NoRegularResults(playoffs.rounds[r].week_index)

\* C35 over the steps of a league in memory: an operation other than loading
\* the stored league keeps the weeks of the bound rounds on the bracket
C35_PlayoffWeekHoldsBracketInMemory ==
    [][(C35_PlayoffWeekHoldsBracket /\ ~LoadLeagueState) => C35_PlayoffWeekHoldsBracket']_vars

(***************************************************************************)
(* C36: weekly results rebuilt from the history                            *)
(***************************************************************************)
\* the team has at least one simulated day in the matchup
HasSimulatedDay(results, id, team) ==
    /\ id \in DOMAIN results
    /\ team \in DOMAIN results[id].teams
    /\ DOMAIN results[id].teams[team].daily_totals # {}

\* the weekly total and the per-date subtotals that were saved are the ones of
\* the loaded league, for every matchup and team with a simulated day
SameSimulatedTotals(saved, loaded) ==
    \A id \in DOMAIN saved :
        \A team \in DOMAIN saved[id].teams :
            HasSimulatedDay(saved, id, team) =>
                /\ id \in DOMAIN loaded
                /\ team \in DOMAIN loaded[id].teams
                /\ loaded[id].teams[team].total = saved[id].teams[team].total
                /\ loaded[id].teams[team].daily_totals = saved[id].teams[team].daily_totals

StoredDates == {history[k].date : k \in DOMAIN history}

\* the last request moved the stored cursor backward
CursorMovedBackward == current_index < requests.last.cursor

\* a day record the store held before the last request is no longer there
DayRecordDisappeared == \E d \in requests.last.dates : d \notin StoredDates

\* C37: when two requests on the same league overlap (both load the state
\* before either saves), the later save overwrites the earlier one in full, so
\* an already persisted update can be lost - for example the persisted cursor
\* moves backward or a persisted day record disappears; with the requests of
\* one league run one after another the persisted cursor never decreases and
\* no history record is removed outside reset.
C37_OnlyOverlapLosesUpdates ==
    /\ (requests.last.kind = "sequential" /\ requests.last.op # "reset") =>
          (~CursorMovedBackward /\ ~DayRecordDisappeared)
    /\ (CursorMovedBackward \/ DayRecordDisappeared) =>
          (requests.last.kind = "overlapped" \/ requests.last.op = "reset")

\* a simulate_day request that loaded the league before the first date was
\* played saves after other requests played both dates: the stored cursor is
\* back on the first date and the record of the second date is gone
C37_Witness ==
    /\ requests.last.kind = "overlapped"
    /\ requests.last.op = "simulate"
    /\ outcome = "ok"
    /\ requests.last.cursor = 1
    /\ requests.last.dates = {6, 13}
    /\ current_index = 0
    /\ StoredDates = {6}

(***************************************************************************)
(* C38: cursor and history                                                 *)
(***************************************************************************)
\* the number of history records of a date
RecordsOf(day) == Cardinality({k \in DOMAIN history : history[k].date = day})

\* C38: in every state reachable by simulate_day, advance_league_day,
\* simulate_until_playoffs and reset: 0 <= cursor <= number of calendar dates;
\* every calendar date before the cursor has exactly one history record; the
\* current date has a history record exactly when awaiting_simulation is
\* false; no date after the cursor has a history record.
C38_CursorAndHistory ==
    /\ 0 <= current_index
    /\ current_index <= Len(league.calendar)
    /\ \A i \in 1..Len(league.calendar) :
          /\ i <= current_index => RecordsOf(league.calendar[i]) = 1
          /\ i = current_index + 1 =>
                (RecordsOf(league.calendar[i]) >= 1 <=> ~awaiting_simulation)
          /\ i > current_index + 1 => RecordsOf(league.calendar[i]) = 0

\* the cursor is inside the calendar on a date that has been played, with
\* played dates before it and an unplayed date after it
C38_Witness ==
    /\ current_index >= 1
    /\ current_index + 1 < Len(league.calendar)
    /\ ~awaiting_simulation
    /\ RecordsOf(league.calendar[current_index + 1]) = 1
    /\ RecordsOf(league.calendar[current_index]) = 1
    /\ RecordsOf(league.calendar[current_index + 2]) = 0

(***************************************************************************)
(* C39: the order in which rounds are resolved                             *)
(***************************************************************************)
\* C39: playoff rounds are resolved strictly in order: round r+1 is never
\* marked completed while round r is not completed, and the bracket is never
\* marked completed while any round is unresolved - for every calendar,
\* including one with no game date on the last day of a playoff week.
C39_RoundsResolvedInOrder ==
    playoffs.exists =>
        /\ \A r \in 1..(Len(playoffs.rounds) - 1) :
              playoffs.rounds[r + 1].status = "completed" => playoffs.rounds[r].status = "completed"
        /\ playoffs.completed =>
              \A r \in DOMAIN playoffs.rounds : playoffs.rounds[r].status = "completed"

\* C39 in the leagues whose playoff weeks each have a game on their Sunday
C39_RoundsResolvedInOrderWithSundayGames ==
    (\A w \in DOMAIN weeks : weeks[w].end \in SeqToSet(league.calendar)) => C39_RoundsResolvedInOrder

(***************************************************************************)
(* C40: the teams of the bracket rounds                                    *)
(***************************************************************************)
\* the teams recorded as winners of the resolved matchups of a round
RoundWinners(round) ==
    {round.matchups[m].winner.team :
        m \in {x \in DOMAIN round.matchups : round.matchups[x].has_winner}} \ {NoTeam}

\* the teams recorded as losers of the resolved matchups of a round
RoundLosers(round) ==
    {round.matchups[m].loser.team :
        m \in {x \in DOMAIN round.matchups : round.matchups[x].has_winner}} \ {NoTeam}

\* the seeded teams that have no matchup in the first round
TeamsWithBye ==
    {SeedTeam(playoffs.seeds, seed) : seed \in 1..playoffs_config.teams}
        \ SlotTeams(playoffs.rounds[1])

\* C40: in every reachable bracket state, no team appears in two matchups of
\* the same round, every team in a round after the first is either a winner
\* of the previous round or a seed with a bye, and a team recorded as the
\* loser of a resolved matchup never appears in a later round.
C40_BracketTeams ==
    playoffs.exists =>
        \A r \in DOMAIN playoffs.rounds :
            With(RoundSlots(playoffs.rounds[r]), LAMBDA slots :
                /\ \A i, j \in DOMAIN slots :
                      (slots[i] # NoTeam /\ slots[i] = slots[j]) => i = j
                /\ r > 1 =>
                      (SeqToSet(slots) \ {NoTeam})
                          \subseteq (RoundWinners(playoffs.rounds[r - 1]) \cup TeamsWithBye)
                /\ \A earlier \in 1..(r - 1) :
                      RoundLosers(playoffs.rounds[earlier]) \cap SeqToSet(slots) = {})

\* a six-team bracket played to its final: the second round held the two
\* seeds with a bye and the two first-round winners, seed 6 among them, and
\* the final holds two winners of the second round
C40_Witness ==
    /\ playoffs.exists
    /\ playoffs_config.teams = 6
    /\ playoffs.rounds[2].status = "completed"
    /\ SlotTeams(playoffs.rounds[2]) =
          TeamsWithBye \cup RoundWinners(playoffs.rounds[1])
    /\ Cardinality(SlotTeams(playoffs.rounds[2])) = 4
    /\ Cardinality(TeamsWithBye) = 2
    /\ SeedTeam(playoffs.seeds, 6) \in RoundWinners(playoffs.rounds[1])
    /\ Cardinality(RoundLosers(playoffs.rounds[1])) = 2
    /\ SlotTeams(playoffs.rounds[3]) = RoundWinners(playoffs.rounds[2])
    /\ Cardinality(SlotTeams(playoffs.rounds[3])) = 2

====
